---- MODULE Spec2Model ----
(***************************************************************************)
(* Minion Orchestra server (src/packages/server): the agent registry       *)
(* (AgentManager), the task counters (TaskQueue), the process scanner, the *)
(* liveness pass of the cleanup loop, the hook / REST / WebSocket handlers *)
(* that write the registry, and the session-file watcher's status          *)
(* inference and enrichment.                                               *)
(*                                                                         *)
(* The registry is a Python dict, which keeps insertion order:             *)
(* find_agent_by_id returns the FIRST entry whose agent has the id, so the *)
(* registry is a sequence of [key, agent] entries here.                    *)
(*                                                                         *)
(* Python's None is the value NONE for strings and 0 for pids (the code    *)
(* only ever tests pids for truthiness or equality with a real pid).       *)
(*                                                                         *)
(* services.py, routes.py and server.py read and write the Agent fields    *)
(* status_changed_at, parent_pid and active_duration, which the Agent      *)
(* declaration of models.py does not list; an agent record here carries    *)
(* them, with the default the specification gives a new record's           *)
(* timestamps (the creation time).                                         *)
(***************************************************************************)
EXTENDS Integers, Sequences, FiniteSets, TLC

VARIABLES
    agents,   \* AgentManager.agents: sequence of [key, agent], insertion order
    queue,    \* TaskQueue.queue: the four counters
    now,      \* the wall clock, in seconds
    procs,    \* pids of the live OS processes whose argv[0] is "claude"
    timers,   \* deferred removals scheduled by asyncio.create_task(_remove())
    svc,      \* CleanupService._task, the tick-loop tasks ever created, and
              \* config.cleanup_interval_ms
    watch,    \* SessionWatcher's debounce state and its two threads
    life,     \* the lifespan of the application: where its shutdown is, and the
              \* connection to the database
    op        \* the last handler that ran, its inputs and what it returned

vars == <<agents, queue, now, procs, timers, svc, watch, life, op>>

NONE == "<None>"

\* config.py DEFAULTS: cleanup_interval_ms.
DEFAULT_CLEANUP_INTERVAL_MS == 5000

\* CleanupService.__init__ and Config.__init__: no tick-loop task yet, the
\* default cadence. tasks lists every task asyncio.create_task ever made.
SvcInit == [interval |-> DEFAULT_CLEANUP_INTERVAL_MS, task |-> 0, tasks |-> << >>]

\* The session files of the model.
Paths == {"a.jsonl", "b.jsonl"}

\* SessionWatcher.__init__: nothing pending, no debounce timer; the watch
\* thread is idle. clock is time.monotonic() in tenths of a second, timers
\* are the threading.Timer objects ever created, notified the calls of
\* _schedule_file_processing so far and passes the number of calls of
\* _on_file_modified for each file. observer is the watchdog observer, which
\* the lifespan has started.
WatchInit ==
    [clock |-> 0, pending |-> << >>, timer |-> 0, timers |-> << >>,
     thread |-> [pc |-> "idle", path |-> NONE, at |-> 0],
     notified |-> << >>, passes |-> [f \in Paths |-> 0], observer |-> "started"]

\* The lifespan of the application between its yield and its end: the server
\* serves, the connection init_db opened is open, and no stop has raised.
LifeInit == [pc |-> "serving", db |-> "open", watcher_raised |-> FALSE, sweep_raised |-> FALSE]

\* ---------------------------------------------------------------- bounds

\* Cap on each task counter (Python ints are unbounded).
MaxQueue == 3

\* ------------------------------------------------------------ Task Queue

Buckets == {"pending", "inProgress", "completed", "failed"}

\* Status strings a caller may pass: the six of the table, statuses that map
\* to no bucket, an unknown string, the empty string and None.
StatusInputs ==
    {"pending", "working", "in_progress", "inProgress", "completed", "failed",
     "idle", "bogus", "", NONE}

\* Python truthiness of an optional string.
Truthy(s) == s # NONE /\ s # ""

\* TaskQueue.__init__ / TaskQueue.reset
ZeroQueue == [b \in Buckets |-> 0]

\* A table that falls back on "pending" for a status it does not list.
NormalizeWithDefault(status) ==
    CASE status = "working"     -> "inProgress"
      [] status = "in_progress" -> "inProgress"
      [] status = "inProgress"  -> "inProgress"
      [] status = "completed"   -> "completed"
      [] status = "failed"      -> "failed"
      [] OTHER                  -> "pending"

\* TaskQueue._normalize: the status -> bucket table; NONE for any other string.
Normalize(status) ==
    CASE status = "pending"     -> "pending"
      [] status = "working"     -> "inProgress"
      [] status = "in_progress" -> "inProgress"
      [] status = "inProgress"  -> "inProgress"
      [] status = "completed"   -> "completed"
      [] status = "failed"      -> "failed"
      [] OTHER                  -> NONE

\* TaskQueue._increment
QInc(q, status) ==
    LET key == Normalize(status) IN
    IF key # NONE /\ key \in DOMAIN q
    THEN [q EXCEPT ![key] = @ + 1]
    ELSE q

\* A decrement that forgets the "> 0" test.
QDecUnguarded(q, status) ==
    LET key == Normalize(status) IN
    IF key # NONE /\ key \in DOMAIN q
    THEN [q EXCEPT ![key] = @ - 1]
    ELSE q

\* TaskQueue._decrement: saturates at 0
QDec(q, status) ==
    LET key == Normalize(status) IN
    IF key # NONE /\ key \in DOMAIN q /\ q[key] > 0
    THEN [q EXCEPT ![key] = @ - 1]
    ELSE q

\* TaskQueue.update_task_status
QUpdate(q, old_status, new_status) ==
    LET q1 == IF Truthy(old_status) THEN QDec(q, old_status) ELSE q IN
    IF Truthy(new_status) THEN QInc(q1, new_status) ELSE q1

\* The counters stay within the model's cap.
QFits(q) == \A b \in Buckets : q[b] <= MaxQueue

\* ------------------------------------------ Task Queue: the four calls

TQIncrement(s) ==
    /\ QFits(QInc(queue, s))
    /\ queue' = QInc(queue, s)
    /\ op' = [name |-> "increment", status |-> s]
    /\ UNCHANGED <<life, agents, now, procs, timers, svc, watch>>

TQDecrement(s) ==
    /\ queue' = QDec(queue, s)
    /\ op' = [name |-> "decrement", status |-> s,
              was |-> IF Normalize(s) = NONE THEN 0 ELSE queue[Normalize(s)]]
    /\ UNCHANGED <<life, agents, now, procs, timers, svc, watch>>

TQUpdateTaskStatus(old, new) ==
    /\ QFits(QUpdate(queue, old, new))
    /\ queue' = QUpdate(queue, old, new)
    /\ op' = [name |-> "update_task_status"]
    /\ UNCHANGED <<life, agents, now, procs, timers, svc, watch>>

TQReset ==
    /\ queue' = ZeroQueue
    /\ op' = [name |-> "reset"]
    /\ UNCHANGED <<life, agents, now, procs, timers, svc, watch>>

InitTQ ==
    /\ agents = << >>
    /\ queue = ZeroQueue
    /\ now = 0
    /\ procs = {}
    /\ timers = {}
    /\ svc = SvcInit
    /\ watch = WatchInit
    /\ life = LifeInit
    /\ op = [name |-> "init"]

NextTQ ==
    \/ \E s \in StatusInputs \ {NONE} : TQIncrement(s)
    \/ \E s \in StatusInputs \ {NONE} : TQDecrement(s)
    \/ \E old \in StatusInputs, new \in StatusInputs : TQUpdateTaskStatus(old, new)
    \/ TQReset

\* The task counters alone, driven by any sequence of the four calls.
SpecTQ == InitTQ /\ [][NextTQ]_vars

\* C2: after any sequence of increment, decrement, update_task_status and
\* reset calls, with any status strings, no bucket is negative (and the map
\* still has its four keys).
C2_NeverNegative ==
    /\ DOMAIN queue = Buckets
    /\ \A b \in Buckets : queue[b] \in Nat

\* C2 witness: a decrement has just run on a bucket that holds 0, and the
\* bucket still holds 0.
C2_Witness ==
    /\ op.name = "decrement"
    /\ op.status = "working"
    /\ op.was = 0
    /\ queue["inProgress"] = 0
    /\ queue["completed"] > 0

\* The keys of the table of TaskQueue._normalize.
TableStatuses == {"pending", "working", "in_progress", "inProgress", "completed", "failed"}

\* C18: an increment or a decrement whose status the table does not list
\* goes through and leaves the four counters as they were, and the map has
\* the four buckets as its keys after every step.
C18_UnknownStatusIsNoOp ==
    [][/\ (op'.name \in {"increment", "decrement"} /\ op'.status \notin TableStatuses)
          => queue' = queue
       /\ DOMAIN queue' = Buckets]_vars

\* An increment or a decrement with a status outside the table has just
\* run on counters that are not all zero.
C18_Witness ==
    /\ op.name \in {"increment", "decrement"}
    /\ op.status \in {"idle", "bogus", ""}
    /\ \E b \in Buckets : queue[b] > 0
    /\ DOMAIN queue = Buckets

\* ------------------------------------------------------------ the registry

\* OS pids of the model. Pid 3 is the claude session the server was started
\* from: it is in the server's own ancestor chain.
Pids == {1, 2, 3}

\* _get_own_ancestor_pids: the claude processes among the server's ancestors.
OwnTree == {3}

\* str(pid)
StrOfPid(pid) == CASE pid = 1 -> "1" [] pid = 2 -> "2" [] pid = 3 -> "3"

\* proc.info["cwd"] of each process ("" when the OS gives none). Pids 1 and
\* 2 are two sessions in one directory.
CwdOf(pid) == CASE pid = 1 -> "/repo/app" [] pid = 2 -> "/repo/app" [] pid = 3 -> ""

\* os.path.basename of the working directories of the model.
BaseName(path) == CASE path = "/repo/app" -> "app" [] path = "/repo/lib" -> "lib" [] OTHER -> ""

\* f"Claude ({pid})"
FallbackName(pid) == "Claude (" \o StrOfPid(pid) \o ")"

\* Agent.session_data as a record of the keys the server reads: NONE for a
\* key the dict lacks, other for any other key. NoSessionData is None, and
\* the empty dict (both are falsy, and no handler tells them apart).
NoSessionData == [sessionId |-> NONE, gitBranch |-> NONE, model |-> NONE, other |-> FALSE]

\* The default of Agent.status_changed_at: the creation time.
DefaultStatusChangedAt(t) == t

\* AgentManager.create_agent: the defaults, overridden by the keyword
\* arguments kw. Agent fields that no modelled handler reads (socket_id,
\* start_time, progress, tokens_used, logs, metrics, last_tool_used,
\* last_tool_time, current_tool_description) are left out.
create_agent(kw, t) ==
    kw @@ [id |-> NONE, name |-> "Claude Agent", type |-> "claude-code",
           status |-> "idle", current_task |-> NONE, current_tool |-> NONE,
           pid |-> 0, parent_pid |-> 0, working_directory |-> NONE,
           session_data |-> NoSessionData, recent_tools |-> << >>, tool_calls |-> 0,
           active_duration |-> 0, last_activity |-> t,
           status_changed_at |-> DefaultStatusChangedAt(t)]

Indices(A) == 1..Len(A)

Min(S) == CHOOSE x \in S : \A y \in S : x <= y

\* AgentManager.find_agent_by_id: index of the first entry with the id, 0 if none.
find_agent_by_id(A, id) ==
    LET hits == {i \in Indices(A) : A[i].agent.id = id} IN
    IF hits = {} THEN 0 ELSE Min(hits)

\* AgentManager.find_agent_by_pid
find_agent_by_pid(A, pid) ==
    LET hits == {i \in Indices(A) : A[i].agent.pid = pid} IN
    IF hits = {} THEN 0 ELSE Min(hits)

\* AgentManager.get_agent_by_socket_id: index of the entry under the key, 0 if none.
KeyIndex(A, key) ==
    LET hits == {i \in Indices(A) : A[i].key = key} IN
    IF hits = {} THEN 0 ELSE Min(hits)

Keys(A) == {A[i].key : i \in Indices(A)}

\* AgentManager.set_agent: dict assignment keeps the position of a key the
\* dict already has and appends a new key.
set_agent(A, key, agent) ==
    IF KeyIndex(A, key) # 0
    THEN [A EXCEPT ![KeyIndex(A, key)] = [key |-> key, agent |-> agent]]
    ELSE Append(A, [key |-> key, agent |-> agent])

\* AgentManager.remove_agent
remove_agent(A, key) == SelectSeq(A, LAMBDA e : e.key # key)

\* AgentManager.remove_agent_by_id: removes the first entry with the id.
remove_agent_by_id(A, id) ==
    IF find_agent_by_id(A, id) # 0
    THEN remove_agent(A, A[find_agent_by_id(A, id)].key)
    ELSE A

\* ------------------------------------------------------ Process Scanner

\* The set S as the sequence of its elements in increasing order:
\* psutil.process_iter yields the processes by increasing pid.
RECURSIVE Ascending(_)
Ascending(S) ==
    IF S = {} THEN << >>
    ELSE <<Min(S)>> \o Ascending(S \ {Min(S)})

\* A scanner that skips only its own ancestors: it looks up neither the pid
\* nor the id before it creates.
ScanSkipsOwnTreeOnly(A, known_pids, pid) == pid \in OwnTree

\* scan_claude_processes, lines 100-112: the three tests that skip a process.
ScanSkips(A, known_pids, pid) ==
    \/ pid \in OwnTree
    \/ pid \in known_pids
    \/ find_agent_by_id(A, StrOfPid(pid)) # 0

\* scan_claude_processes, lines 114-125: the agent created for a new process.
ScanAgent(pid, t) ==
    create_agent([id |-> StrOfPid(pid),
                  name |-> IF CwdOf(pid) # "" THEN BaseName(CwdOf(pid))
                           ELSE FallbackName(pid),
                  type |-> "claude-code", status |-> "idle",
                  working_directory |-> CwdOf(pid), pid |-> pid], t)

\* scan_claude_processes: the loop over the processes ps (a sequence), from
\* the registry A with the pids known so far. gone are the processes that
\* exit during the scan: proc.create_time() raises NoSuchProcess for them and
\* they are skipped.
RECURSIVE ScanLoop(_, _, _, _, _, _)
ScanLoop(A, known_pids, found, ps, gone, t) ==
    IF ps = << >> THEN [agents |-> A, found |-> found]
    ELSE LET pid == Head(ps) IN
         IF ScanSkips(A, known_pids, pid) \/ pid \in gone
         THEN ScanLoop(A, known_pids, found, Tail(ps), gone, t)
         ELSE ScanLoop(set_agent(A, "scan-" \o StrOfPid(pid), ScanAgent(pid, t)),
                       known_pids \cup {pid}, found + 1, Tail(ps), gone, t)

\* scan_claude_processes(am): [agents, found].
scan_claude_processes(A, live, gone, t) ==
    ScanLoop(A, {A[i].agent.pid : i \in Indices(A)} \ {0}, 0,
             Ascending(live), gone, t)

\* ------------------------------------------------------------ tool tracking

\* Cap on Agent.tool_calls (a Python int).
MaxToolCalls == 6

\* Tool names a PreToolUse event may carry; None when the event's tool_name
\* is null.
ToolNames == {"Bash", "Read", NONE}

\* recent_tools after a call that appends without comparing with the last entry.
RecentToolsAlwaysAppend(recent, tool_name) ==
    LET r == Append(recent, tool_name) IN
    IF Len(r) > 5 THEN Tail(r) ELSE r

\* update_agent_tool, lines 254-257: recent_tools after a call.
RecentTools(recent, tool_name) ==
    IF recent = << >> \/ recent[Len(recent)] # tool_name
    THEN LET r == Append(recent, tool_name) IN
         IF Len(r) > 5 THEN Tail(r) ELSE r
    ELSE recent

\* AgentManager.update_agent_tool: [agents, ok].
update_agent_tool(A, agent_id, tool_name, t) ==
    LET i == find_agent_by_id(A, agent_id) IN
    IF i = 0 THEN [agents |-> A, ok |-> FALSE]
    ELSE [agents |-> set_agent(A, A[i].key,
                       [A[i].agent EXCEPT
                           !.tool_calls = @ + 1,
                           !.current_tool = tool_name,
                           !.last_activity = t,
                           !.recent_tools = RecentTools(@, tool_name)]),
          ok |-> TRUE]

\* A direct call of AgentManager.update_agent_tool.
UpdateAgentTool(agent_id, tool_name) ==
    LET r == update_agent_tool(agents, agent_id, tool_name, now) IN
    /\ \A i \in Indices(r.agents) : r.agents[i].agent.tool_calls <= MaxToolCalls
    /\ agents' = r.agents
    /\ op' = [name |-> "update_agent_tool", id |-> agent_id, tool |-> tool_name,
              ok |-> r.ok]
    /\ UNCHANGED <<life, queue, now, procs, timers, svc, watch>>

\* The registry a process scan fills when process 1 is the one claude
\* process that is running.
InitTools ==
    /\ procs = {1}
    /\ agents = scan_claude_processes(<< >>, procs, {}, 0).agents
    /\ queue = ZeroQueue
    /\ now = 0
    /\ timers = {}
    /\ svc = SvcInit
    /\ watch = WatchInit
    /\ life = LifeInit
    /\ op = [name |-> "init"]

NextTools ==
    \E id \in {"1", "2"}, tool \in ToolNames : UpdateAgentTool(id, tool)

\* One scanned agent, driven by any sequence of update_agent_tool calls.
SpecTools == InitTools /\ [][NextTools]_vars

\* C4: recent_tools never holds more than 5 entries nor two identical
\* entries next to each other, and a call that appends to a full list drops
\* the front entry: the list becomes its last four entries and the new name.
C4_RecentTools ==
    [][ /\ \A i \in Indices(agents') :
             LET r == agents'[i].agent.recent_tools IN
             /\ Len(r) <= 5
             /\ \A k \in 1..(Len(r) - 1) : r[k] # r[k + 1]
        /\ \A i \in Indices(agents) :
             LET r == agents[i].agent.recent_tools IN
             (/\ op'.name = "update_agent_tool"
              /\ op'.ok
              /\ op'.id = agents[i].agent.id
              /\ Len(r) = 5
              /\ r[5] # op'.tool)
             => agents'[i].agent.recent_tools
                  = <<r[2], r[3], r[4], r[5], op'.tool>> ]_vars

\* C4 witness: a sixth entry has been appended to a list of five distinct
\* from it, so the front entry was dropped.
C4_Witness ==
    /\ op.name = "update_agent_tool"
    /\ op.ok
    /\ \E i \in Indices(agents) :
         /\ agents[i].agent.tool_calls >= 6
         /\ agents[i].agent.recent_tools = <<"Read", "Bash", "Read", "Bash", NONE>>

\* ------------------------------------- session watcher: status inference

IDLE_THRESHOLD_SECONDS == 300

OFFLINE_THRESHOLD_SECONDS == 3600

\* The clock at which the inference runs in SpecDerive.
DeriveNow == 7200

\* Ages of the last record's timestamp, around both thresholds; -60 is a
\* timestamp in the future.
DeriveAges == {-60, 0, 299, 300, 301, 3599, 3600, 3601, 7200}

\* What last_entry.get("timestamp") can be:
\*   absent    - no key, null or "": falsy, the age test is skipped;
\*   aware     - an ISO string with "Z" or an offset: fromisoformat gives an
\*               offset-aware datetime, the instant at;
\*   naive     - an ISO string without offset: subtracting it from the
\*               offset-aware now raises TypeError, which is caught;
\*   malformed - fromisoformat raises ValueError, which is caught;
\*   number    - a JSON number: .replace raises AttributeError, which the
\*               function does not catch.
TimestampKinds == {"absent", "aware", "naive", "malformed", "number"}

\* The last records of the model: [ts_kind, at, type, hook_event, data_type].
\* hook_event is data.hookEvent and data_type is data.type.
LastEntries ==
    [ts_kind : {"aware", "naive"}, at : {DeriveNow - a : a \in DeriveAges},
     type : {"progress", "user", "assistant", "system", NONE},
     hook_event : {"PreToolUse", "PostToolUse", "hook_progress", "Stop", NONE},
     data_type : {"hook_progress", NONE}]
    \cup
    [ts_kind : {"absent", "malformed", "number"}, at : {0},
     type : {"progress", "user", "assistant", "system", NONE},
     hook_event : {"PreToolUse", "PostToolUse", "hook_progress", "Stop", NONE},
     data_type : {"hook_progress", NONE}]

RAISED == "<raised>"

\* _derive_status, lines 286-300: the record-type heuristics.
TypeHeuristics(e) ==
    LET hook_event == IF Truthy(e.hook_event) THEN e.hook_event
                      ELSE IF e.data_type = NONE THEN "" ELSE e.data_type IN
    IF e.type = "progress" /\ hook_event \in {"PreToolUse", "PostToolUse", "hook_progress"}
    THEN "working"
    ELSE IF e.type = "user" THEN "working"
    ELSE "idle"

\* SessionWatcher._derive_status
DeriveStatus(e, t) ==
    IF e.ts_kind = "number" THEN RAISED
    ELSE IF e.ts_kind = "aware" /\ t - e.at > OFFLINE_THRESHOLD_SECONDS THEN "offline"
    ELSE IF e.ts_kind = "aware" /\ t - e.at > IDLE_THRESHOLD_SECONDS THEN "idle"
    ELSE TypeHeuristics(e)

\* One call of _derive_status on a last record.
Derive(e) ==
    /\ op' = [name |-> "derive_status", entry |-> e, status |-> DeriveStatus(e, now)]
    /\ UNCHANGED <<life, agents, queue, now, procs, timers, svc, watch>>

InitDerive ==
    /\ agents = << >>
    /\ queue = ZeroQueue
    /\ now = DeriveNow
    /\ procs = {}
    /\ timers = {}
    /\ svc = SvcInit
    /\ watch = WatchInit
    /\ life = LifeInit
    /\ op = [name |-> "init"]

NextDerive == \E e \in LastEntries : Derive(e)

\* Status inference, applied to any last record.
SpecDerive == InitDerive /\ [][NextDerive]_vars

\* C7: a last record whose timestamp is more than 1 hour before now infers
\* offline, whatever its type and hook event.
C7_StaleIsOffline ==
    (/\ op.name = "derive_status"
     /\ op.entry.ts_kind \in {"aware", "naive"}
     /\ now - op.entry.at > 3600)
    => op.status = "offline"

\* ------------------------------------------------- AgentManager mutators

\* The registry with the agent of entry i replaced (the handlers mutate the
\* Agent object that the registry holds, in place).
Upd(A, i, agent) == [A EXCEPT ![i].agent = agent]

\* AgentManager.clear_agent_tool
clear_agent_tool(A, agent_id, t) ==
    LET i == find_agent_by_id(A, agent_id) IN
    IF i = 0 THEN A
    ELSE set_agent(A, A[i].key,
                   [A[i].agent EXCEPT !.current_tool = NONE, !.last_activity = t])

\* An update that stamps status_changed_at at every call.
update_agent_status_stamps_always(A, agent_id, status, t) ==
    LET i == find_agent_by_id(A, agent_id) IN
    IF i = 0 THEN A
    ELSE LET a == A[i].agent IN
         set_agent(A, A[i].key,
             [a EXCEPT
                 !.status_changed_at = t,
                 !.status = status,
                 !.last_activity = t,
                 !.current_task = IF status \in {"idle", "offline"} THEN NONE ELSE @,
                 !.current_tool = IF status \in {"idle", "offline"} THEN NONE ELSE @])

\* AgentManager.update_agent_status
update_agent_status(A, agent_id, status, t) ==
    LET i == find_agent_by_id(A, agent_id) IN
    IF i = 0 THEN A
    ELSE LET a == A[i].agent IN
         set_agent(A, A[i].key,
             [a EXCEPT
                 !.status_changed_at = IF a.status # status THEN t ELSE @,
                 !.status = status,
                 !.last_activity = t,
                 !.current_task = IF status \in {"idle", "offline"} THEN NONE ELSE @,
                 !.current_tool = IF status \in {"idle", "offline"} THEN NONE ELSE @])

\* AgentManager.update_agent_task
update_agent_task(A, agent_id, task, t) ==
    LET i == find_agent_by_id(A, agent_id) IN
    IF i = 0 THEN A
    ELSE set_agent(A, A[i].key,
                   [A[i].agent EXCEPT !.current_task = task, !.status = "working",
                                      !.last_activity = t])

\* ------------------------------------------------------------ hook events

\* Seconds a deferred removal sleeps before it removes the agent.
REMOVE_DELAY_SECONDS == 60

\* The state the handlers of the event loop work on.
St(A, q, T) == [agents |-> A, queue |-> q, timers |-> T]

\* What a Claude Code hook posts (hooks/minion_orchestra_hook.py, main):
\* agentId "claude-proc-<pid>", agentName the base name of the event's cwd.
HookIdOf(pid) == "claude-proc-" \o StrOfPid(pid)

\* event.data.get("cwd", "") and event.agentName of the events of the model:
\* those of the process the event names, nothing for an event without pid.
EventCwd(e) == IF e.pid # 0 THEN CwdOf(e.pid) ELSE ""

EventName(e) ==
    IF e.pid = 0 THEN NONE
    ELSE IF BaseName(CwdOf(e.pid)) # "" THEN BaseName(CwdOf(e.pid))
    ELSE "Claude Agent"

\* hook_endpoint, lines 309-335: the registry with the event's agent looked
\* up by id, created under "hook-<id>" when there is none, enriched otherwise.
HookLookup(A, e, t) ==
    LET i == find_agent_by_id(A, e.agentId) IN
    IF i = 0
    THEN set_agent(A, "hook-" \o e.agentId,
             create_agent(
                 [id |-> e.agentId,
                  name |-> IF Truthy(EventName(e)) THEN EventName(e) ELSE "Claude Agent",
                  type |-> IF e.parentPid # 0 /\ find_agent_by_pid(A, e.parentPid) # 0
                           THEN "subagent" ELSE "claude-code",
                  status |-> "idle", working_directory |-> EventCwd(e),
                  pid |-> e.pid, parent_pid |-> e.parentPid], t))
    ELSE LET a == A[i].agent IN
         Upd(A, i,
             [a EXCEPT
                 !.working_directory =
                     IF EventCwd(e) # "" /\ ~Truthy(a.working_directory)
                     THEN EventCwd(e) ELSE @,
                 !.pid = IF e.pid # 0 /\ a.pid = 0 THEN e.pid ELSE @,
                 !.parent_pid = IF e.parentPid # 0 /\ a.parent_pid = 0
                                THEN e.parentPid ELSE @,
                 !.name = IF Truthy(EventName(e)) /\ a.name # EventName(e)
                          THEN EventName(e) ELSE @])

\* session_data after a SessionStart that carries data: the event's data
\* dict, which has keys of its own and no sessionId, gitBranch or model key.
HookSessionData == [sessionId |-> NONE, gitBranch |-> NONE, model |-> NONE, other |-> TRUE]

\* _handle_session_start
HandleSessionStart(s, i, e, t) ==
    St(Upd(s.agents, i, [s.agents[i].agent EXCEPT !.status = "idle",
                                                   !.session_data =
                                                       IF e.has_data THEN HookSessionData
                                                       ELSE NoSessionData]),
       s.queue, s.timers)

\* A handler that sets the status and leaves the counters alone.
HandleUserPromptSubmitUncounted(s, i, e, t) ==
    St(Upd(s.agents, i, [s.agents[i].agent EXCEPT !.status = "working",
                                                   !.current_task = "prompt"]),
       s.queue, s.timers)

\* _handle_user_prompt_submit
HandleUserPromptSubmit(s, i, e, t) ==
    St(Upd(s.agents, i, [s.agents[i].agent EXCEPT !.status = "working",
                                                   !.current_task = "prompt"]),
       QInc(s.queue, "inProgress"), s.timers)

\* _handle_pre_tool_use (the TodoWrite branch sets current_task to the todo
\* in progress, when the event carries one)
HandlePreToolUse(s, i, e, t) ==
    LET A1 == Upd(s.agents, i, [s.agents[i].agent EXCEPT !.status = "working"])
        A2 == update_agent_tool(A1, e.agentId, e.tool_name, t).agents
        A3 == IF e.tool_name = "TodoWrite" /\ e.todo # NONE
              THEN Upd(A2, i, [A2[i].agent EXCEPT !.current_task = e.todo])
              ELSE A2
    IN St(A3, s.queue, s.timers)

\* _handle_post_tool_use
HandlePostToolUse(s, i, e, t) ==
    St(clear_agent_tool(s.agents, e.agentId, t), s.queue, s.timers)

\* _handle_subagent_stop: every subagent whose parent_pid is the agent's pid
\* completes and gets a deferred removal.
HandleSubagentStop(s, i, e, t) ==
    LET agent == s.agents[i].agent
        subs == {k \in Indices(s.agents) :
                    /\ s.agents[k].agent.type = "subagent"
                    /\ s.agents[k].agent.parent_pid # 0
                    /\ s.agents[k].agent.parent_pid = agent.pid}
    IN St([k \in Indices(s.agents) |->
              IF k \in subs
              THEN [s.agents[k] EXCEPT !.agent.status = "completed",
                                       !.agent.current_task = NONE,
                                       !.agent.last_activity = t]
              ELSE s.agents[k]],
          s.queue,
          s.timers \cup {[id |-> s.agents[k].agent.id, due |-> t + REMOVE_DELAY_SECONDS]
                         : k \in subs})

\* _handle_stop
HandleStop(s, i, e, t) ==
    LET q1 == IF s.queue["inProgress"] > 0 THEN QDec(s.queue, "inProgress") ELSE s.queue
    IN St(Upd(s.agents, i, [s.agents[i].agent EXCEPT
                               !.status = IF s.agents[i].agent.type = "subagent"
                                          THEN "completed" ELSE "idle",
                               !.current_task = NONE, !.current_tool = NONE]),
          QInc(q1, "completed"), s.timers)

\* _handle_permission_request
HandlePermissionRequest(s, i, e, t) ==
    St(Upd(s.agents, i, [s.agents[i].agent EXCEPT !.status = "waiting"]),
       s.queue, s.timers)

\* _handle_post_tool_use_failure
HandlePostToolUseFailure(s, i, e, t) ==
    St(clear_agent_tool(s.agents, e.agentId, t),
       IF s.queue["inProgress"] > 0 /\ e.is_interrupt
       THEN QInc(QDec(s.queue, "inProgress"), "failed") ELSE s.queue,
       s.timers)

\* _handle_session_end
HandleSessionEnd(s, i, e, t) ==
    St(Upd(s.agents, i, [s.agents[i].agent EXCEPT !.status = "offline",
                             !.current_task = NONE, !.current_tool = NONE]),
       IF s.queue["inProgress"] > 0 THEN QDec(s.queue, "inProgress") ELSE s.queue,
       s.timers \cup {[id |-> e.agentId, due |-> t + REMOVE_DELAY_SECONDS]})

\* _handle_task_completed
HandleTaskCompleted(s, i, e, t) ==
    LET q1 == QInc(s.queue, "completed") IN
    St(s.agents, IF q1["inProgress"] > 0 THEN QDec(q1, "inProgress") ELSE q1, s.timers)

\* EVENT_HANDLERS.get(event.eventType, _handle_default): the handlers that
\* only write a log line (SubagentStart, PreCompact, Notification,
\* TeammateIdle, ConfigChange, WorktreeCreate, WorktreeRemove, the default)
\* leave the state alone.
HandleEvent(s, i, e, t) ==
    CASE e.eventType = "SessionStart"       -> HandleSessionStart(s, i, e, t)
      [] e.eventType = "UserPromptSubmit"   -> HandleUserPromptSubmit(s, i, e, t)
      [] e.eventType = "PreToolUse"         -> HandlePreToolUse(s, i, e, t)
      [] e.eventType = "PostToolUse"        -> HandlePostToolUse(s, i, e, t)
      [] e.eventType = "SubagentStop"       -> HandleSubagentStop(s, i, e, t)
      [] e.eventType = "Stop"               -> HandleStop(s, i, e, t)
      [] e.eventType = "PermissionRequest"  -> HandlePermissionRequest(s, i, e, t)
      [] e.eventType = "PostToolUseFailure" -> HandlePostToolUseFailure(s, i, e, t)
      [] e.eventType = "SessionEnd"         -> HandleSessionEnd(s, i, e, t)
      [] e.eventType = "TaskCompleted"      -> HandleTaskCompleted(s, i, e, t)
      [] OTHER                              -> s

\* hook_endpoint: lookup or creation, the event's handler, then
\* last_activity and set_agent on the event's agent.
hook_endpoint(s, e, t) ==
    LET A1 == HookLookup(s.agents, e, t)
        i  == find_agent_by_id(A1, e.agentId)
        s2 == HandleEvent(St(A1, s.queue, s.timers), i, e, t)
    IN St(Upd(s2.agents, i, [s2.agents[i].agent EXCEPT !.last_activity = t]),
          s2.queue, s2.timers)

\* ---------------------------------------------------------- REST endpoints

\* agent_endpoint, lines 408-416: {"type": "disconnect", "agentId": ...}
RestDisconnect(s, target_id) ==
    LET i == find_agent_by_id(s.agents, target_id) IN
    St(remove_agent_by_id(s.agents, target_id),
       IF i # 0 THEN QDec(s.queue, s.agents[i].agent.status) ELSE s.queue,
       s.timers)

\* agent_endpoint, lines 418-423: {"type": "clear-all"}
RestClearAll(s) == St(<< >>, ZeroQueue, s.timers)

\* agent_endpoint, lines 425-461: a body that names a hook event (in
\* data.hook_event_name, else in type) and an agent the registry has.
RestHookEvent(s, hook_event_name, agent_id, b, t) ==
    LET A == s.agents IN
    St(CASE hook_event_name = "PreToolUse" ->
              IF Truthy(b.tool_name)
              THEN update_agent_tool(A, agent_id, b.tool_name, t).agents ELSE A
         [] hook_event_name = "PostToolUse" -> clear_agent_tool(A, agent_id, t)
         [] hook_event_name = "UserPromptSubmit" -> update_agent_task(A, agent_id, "prompt", t)
         [] hook_event_name \in {"Stop", "SubagentStop"} ->
              clear_agent_tool(update_agent_status(A, agent_id, "completed", t), agent_id, t)
         [] OTHER -> A,
       s.queue, s.timers)

\* agent_endpoint, lines 463-490: the regular update of agent body.id.
RestRegular(s, b, t) ==
    LET A == s.agents
        i == find_agent_by_id(A, b.id) IN
    IF ~Truthy(b.id) THEN s
    ELSE IF i = 0
    THEN St(set_agent(A, "rest-" \o b.id,
                create_agent(
                    [id |-> b.id,
                     type |-> IF b.type = NONE THEN "claude-code" ELSE b.type,
                     status |-> IF b.status = NONE THEN "idle" ELSE b.status,
                     current_tool |-> b.tool_name], t)),
            s.queue, s.timers)
    ELSE LET a  == A[i].agent
             st == IF Truthy(b.status) THEN b.status ELSE a.status IN
         St(set_agent(A, A[i].key,
                [a EXCEPT
                    !.status = st,
                    !.last_activity = t,
                    !.current_tool = IF st = "idle" THEN NONE
                                     ELSE IF b.tool_name # NONE THEN b.tool_name ELSE @,
                    !.current_task = IF st = "idle" THEN NONE ELSE @]),
            s.queue, s.timers)

\* agent_endpoint. The body b is [type, agentId, id, hook_event_name, status,
\* tool_name]; hook_event_name is data.hook_event_name, tool_name serves as
\* data.tool_name and as currentTool.
agent_endpoint(s, b, t) ==
    LET hook_event_name == IF Truthy(b.hook_event_name) THEN b.hook_event_name ELSE b.type
        agent_id == IF Truthy(b.agentId) THEN b.agentId ELSE b.id
    IN
    IF b.type = "disconnect" THEN RestDisconnect(s, b.agentId)
    ELSE IF b.type = "clear-all" THEN RestClearAll(s)
    ELSE IF /\ Truthy(hook_event_name) /\ Truthy(agent_id)
            /\ find_agent_by_id(s.agents, agent_id) # 0
    THEN RestHookEvent(s, hook_event_name, agent_id, b, t)
    ELSE RestRegular(s, b, t)

\* task_endpoint: the body is [agentId, task, status].
task_endpoint(s, b, t) ==
    LET A == s.agents
        i == find_agent_by_id(A, b.agentId)
        st == IF Truthy(b.status) THEN b.status ELSE "working"
        A1 == IF i = 0
              THEN set_agent(A, "rest-" \o b.agentId,
                       create_agent([id |-> b.agentId,
                                     name |-> IF Truthy(b.task) THEN "Claude: task"
                                              ELSE "Claude Agent",
                                     type |-> "claude-code", status |-> st,
                                     current_task |-> b.task], t))
              ELSE set_agent(A, A[i].key,
                       [A[i].agent EXCEPT !.current_task = b.task, !.status = st,
                                          !.last_activity = t])
        q1 == CASE b.status = "working"   -> QInc(s.queue, "inProgress")
                [] b.status = "completed" -> QDec(QInc(s.queue, "completed"), "inProgress")
                [] b.status = "failed"    -> QDec(QInc(s.queue, "failed"), "inProgress")
                [] OTHER                  -> s.queue
    IN IF ~Truthy(b.agentId) THEN s ELSE St(A1, q1, s.timers)

\* The branch of log_endpoint's message test that a message takes: the
\* first of the substrings "Using tool:", "completed", "error", "prompt",
\* "Claude is wa" that it contains, "" for an empty message, "other".
MessageKinds == {"Using tool:", "completed", "error", "prompt", "Claude is wa", "other", ""}

\* log_endpoint: the body is [agentId, kind]. A body without agentId makes
\* create_agent raise (Agent.id is a required str), which the endpoint
\* catches: nothing changes.
log_endpoint(s, b, t) ==
    LET A  == s.agents
        i0 == find_agent_by_id(A, b.agentId)
        A1 == IF i0 = 0
              THEN set_agent(A, "rest-" \o b.agentId,
                       create_agent([id |-> b.agentId, name |-> "Claude Agent",
                                     type |-> "claude-code", status |-> "working"], t))
              ELSE A
        i  == find_agent_by_id(A1, b.agentId)
        a  == A1[i].agent
        a1 == CASE b.kind = "Using tool:"  -> [a EXCEPT !.tool_calls = @ + 1,
                                                        !.status = "working"]
                [] b.kind = "completed"    -> [a EXCEPT !.status = "completed"]
                [] b.kind = "error"        -> [a EXCEPT !.status = "failed"]
                [] b.kind = "prompt"       -> [a EXCEPT !.status = "working"]
                [] b.kind = "Claude is wa" -> [a EXCEPT !.status = "idle",
                                                        !.current_task = "Waiting for input"]
                [] OTHER                   -> a
    IN IF b.agentId = NONE THEN s ELSE St(Upd(A1, i, a1), s.queue, s.timers)

\* ------------------------------------------------------ WebSocket handlers

\* on_register_agent: data is [id, type]; id is NONE when the message has
\* no "id" key, and the connection id then serves as the agent id.
on_register_agent(s, sid, data, t) ==
    LET A1 == SelectSeq(s.agents, LAMBDA e : e.agent.id # data.id) IN
    St(set_agent(A1, sid,
           create_agent([id |-> IF data.id = NONE THEN sid ELSE data.id,
                         name |-> "Unknown Agent",
                         type |-> IF data.type = NONE THEN "general-purpose" ELSE data.type,
                         status |-> "idle"], t)),
       s.queue, s.timers)

\* on_status_update: status is NONE when the message has no "status" key.
on_status_update(s, sid, status, t) ==
    LET i == KeyIndex(s.agents, sid) IN
    IF i = 0 THEN s
    ELSE LET a == s.agents[i].agent
             new_status == IF status = NONE THEN a.status ELSE status IN
         St(set_agent(s.agents, sid, [a EXCEPT !.status = new_status, !.last_activity = t]),
            IF a.status # new_status THEN QUpdate(s.queue, a.status, new_status)
            ELSE s.queue,
            s.timers)

\* on_task_update: task is NONE when the message has no task.
on_task_update(s, sid, task, t) ==
    LET i == KeyIndex(s.agents, sid) IN
    IF i = 0 THEN s
    ELSE St(set_agent(s.agents, sid,
                [s.agents[i].agent EXCEPT
                    !.current_task = task, !.last_activity = t,
                    !.status = IF Truthy(task) THEN "working" ELSE @]),
            s.queue, s.timers)

\* on_pause_agent (status "paused") and on_resume_agent (status "working")
on_pause_resume(s, agent_id, status, t) ==
    St(update_agent_status(s.agents, agent_id, status, t), s.queue, s.timers)

\* on_disconnect
on_disconnect(s, sid) ==
    LET i == KeyIndex(s.agents, sid) IN
    IF i = 0 THEN s
    ELSE St(remove_agent(s.agents, sid), QDec(s.queue, s.agents[i].agent.status), s.timers)

\* ------------------------------------------------------------ liveness pass

COMPLETED_TO_OFFLINE_SECONDS == 30

\* A pass that never finds a completed agent's grace period over.
CompletedNeverExpires(a, t) == FALSE

\* cleanup_dead_agents, lines 152-153: the completed agent's grace period is over.
CompletedExpired(a, t) == t - a.status_changed_at > COMPLETED_TO_OFFLINE_SECONDS

\* A pass that takes every process for alive.
PidNeverGone(a, alive) == FALSE

\* cleanup_dead_agents, line 165: the agent has a pid and no process has it.
PidGone(a, alive) == a.pid # 0 /\ a.pid \notin alive

\* A pass that examines offline agents like the others.
SkipsNoAgent(a) == FALSE

\* cleanup_dead_agents, lines 147-148: offline agents are skipped.
SkipsOffline(a) == a.status = "offline"

\* cleanup_dead_agents, lines 141-174: the loop, at entry i of the registry
\* A, with the counters q and the count of changes so far. alive are the
\* pids for which psutil.pid_exists holds.
RECURSIVE CleanupLoop(_, _, _, _, _, _)
CleanupLoop(A, q, changed, i, alive, t) ==
    IF i > Len(A) THEN [agents |-> A, queue |-> q, changed |-> changed]
    ELSE
    LET a == A[i].agent
        off == [a EXCEPT !.status = "offline", !.status_changed_at = t,
                         !.current_task = IF a.type # "subagent" THEN NONE ELSE @,
                         !.current_tool = NONE]
    IN
    IF a.id = "" THEN CleanupLoop(A, q, changed, i + 1, alive, t)
    ELSE IF SkipsOffline(a) THEN CleanupLoop(A, q, changed, i + 1, alive, t)
    ELSE IF a.status = "completed"
    THEN IF CompletedExpired(a, t)
         THEN CleanupLoop(set_agent(A, A[i].key, off), QDec(q, "completed"),
                          changed + 1, i + 1, alive, t)
         ELSE CleanupLoop(A, q, changed, i + 1, alive, t)
    ELSE IF PidGone(a, alive)
    THEN CleanupLoop(set_agent(A, A[i].key, [off EXCEPT !.last_activity = t]),
                     QDec(q, a.status), changed + 1, i + 1, alive, t)
    ELSE CleanupLoop(A, q, changed, i + 1, alive, t)

\* A pass that collects the entries without id and leaves them where they are.
cleanup_dead_agents_keeps(A, q, alive, t) ==
    LET r == CleanupLoop(A, q, 0, 1, alive, t) IN
    [agents |-> r.agents, queue |-> r.queue, changed |-> r.changed,
     to_remove |-> {A[i].key : i \in {k \in Indices(A) : A[k].agent.id = ""}}]

\* cleanup_dead_agents: the loop, then the removal of the entries whose
\* agent has no id. to_remove are the keys of these entries.
cleanup_dead_agents(A, q, alive, t) ==
    LET r == CleanupLoop(A, q, 0, 1, alive, t) IN
    [agents |-> SelectSeq(r.agents, LAMBDA e : e.agent.id # ""),
     queue |-> r.queue, changed |-> r.changed,
     to_remove |-> {A[i].key : i \in {k \in Indices(A) : A[k].agent.id = ""}}]

\* ---------------------------------------------------------------- bounds

\* The clock stops here.
MaxTime == 31

\* Cap on each task counter in the specifications of the event loop.
MaxCount == 1

\* Cap on Agent.tool_calls in the specifications of the event loop.
MaxCalls == 1

\* Cap on the number of registry entries.
MaxAgents == 2

\* ---------------------------------------------------------------- actions

Fits(s) ==
    /\ \A b \in Buckets : s.queue[b] <= MaxCount
    /\ Len(s.agents) <= MaxAgents
    /\ \A i \in Indices(s.agents) : s.agents[i].agent.tool_calls <= MaxCalls

\* The event loop runs a handler to its end: the state becomes s, and o is
\* what is kept of the run.
HandledAs(s, o) ==
    /\ Fits(s)
    /\ agents' = s.agents
    /\ queue' = s.queue
    /\ timers' = s.timers
    /\ op' = o
    /\ UNCHANGED <<life, now, procs, svc, watch>>

\* The event loop runs a handler to its end: the state becomes s.
Handled(s) == HandledAs(s, [name |-> "handler"])

Cur == St(agents, queue, timers)

\* POST /api/hook
Hook(e) == Handled(hook_endpoint(Cur, e, now))

\* POST /api/agent
RestAgent(b) == Handled(agent_endpoint(Cur, b, now))

\* POST /api/task
RestTask(b) == Handled(task_endpoint(Cur, b, now))

\* POST /api/log
RestLog(b) == Handled(log_endpoint(Cur, b, now))

\* POST /reset
RestReset == Handled(St(agents, ZeroQueue, timers))

\* Socket.IO register_agent
WsRegister(sid, data) == Handled(on_register_agent(Cur, sid, data, now))

\* Socket.IO status_update
WsStatusUpdate(sid, status) == Handled(on_status_update(Cur, sid, status, now))

\* Socket.IO task_update
WsTaskUpdate(sid, task) == Handled(on_task_update(Cur, sid, task, now))

\* Socket.IO pause_agent / resume_agent
WsPauseResume(id, status) == Handled(on_pause_resume(Cur, id, status, now))

\* Socket.IO disconnect
WsDisconnect(sid) == Handled(on_disconnect(Cur, sid))

\* A deferred removal wakes up: remove_agent_by_id of its agent.
TimerFires(tm) ==
    /\ tm \in timers
    /\ tm.due <= now
    /\ agents' = remove_agent_by_id(agents, tm.id)
    /\ timers' = timers \ {tm}
    /\ op' = [name |-> "deferred_removal"]
    /\ UNCHANGED <<life, queue, now, procs, svc, watch>>

\* POST /scan: one process scan. gone are the processes that exit while the
\* scan runs.
ScanEndpoint(gone) ==
    LET r == scan_claude_processes(agents, procs, gone, now) IN
    /\ gone \subseteq procs
    /\ Len(r.agents) <= MaxAgents
    /\ agents' = r.agents
    /\ procs' = procs \ gone
    /\ op' = [name |-> "scan", found |-> r.found]
    /\ UNCHANGED <<life, queue, now, timers, svc, watch>>

\* CleanupService._tick_loop, lines 391-396: one cycle of the slower
\* cadence, the process scan and then the liveness pass.
SweepCycle ==
    LET r1 == scan_claude_processes(agents, procs, {}, now)
        r2 == cleanup_dead_agents(r1.agents, queue, procs, now) IN
    /\ Len(r1.agents) <= MaxAgents
    /\ agents' = r2.agents
    /\ queue' = r2.queue
    /\ op' = [name |-> "sweep", changed |-> r2.changed, before |-> queue,
              removed |-> r2.to_remove]
    /\ UNCHANGED <<life, now, procs, timers, svc, watch>>

\* d seconds pass, up to the time limit. A deferred removal that is due
\* runs before more time passes.
TimePasses(d, limit) ==
    /\ now + d <= limit
    /\ \A tm \in timers : tm.due > now
    /\ now' = now + d
    /\ op' = [name |-> "tick"]
    /\ UNCHANGED <<life, agents, queue, procs, timers, svc, watch>>

\* Time passes.
Tick(d) == TimePasses(d, MaxTime)

\* A claude process starts.
ProcStart(pid) ==
    /\ pid \notin procs
    /\ procs' = procs \cup {pid}
    /\ op' = [name |-> "proc"]
    /\ UNCHANGED <<life, agents, queue, now, timers, svc, watch>>

\* A claude process exits.
ProcExit(pid) ==
    /\ pid \in procs
    /\ procs' = procs \ {pid}
    /\ op' = [name |-> "proc"]
    /\ UNCHANGED <<life, agents, queue, now, timers, svc, watch>>

\* ------------------------------------------------- the registry at work

\* The hook events of the model. Ids: "1" is the id a scan gives process 1,
\* "s1" is also the id of a WebSocket connection.
HookTypes ==
    {"SessionStart", "UserPromptSubmit", "SubagentStop", "Stop", "PermissionRequest",
     "SessionEnd"}

HookEvent(type, id, pid, parentPid) ==
    [eventType |-> type, agentId |-> id, pid |-> pid, parentPid |-> parentPid,
     is_interrupt |-> FALSE, tool_name |-> "Bash", todo |-> NONE, has_data |-> FALSE]

HookEvents ==
    {HookEvent(ty, "1", 1, 0) : ty \in HookTypes}
    \cup {HookEvent("Stop", "s1", 0, 1)}

AgentBody(type, agentId, id, status) ==
    [type |-> type, agentId |-> agentId, id |-> id, hook_event_name |-> NONE,
     status |-> status, tool_name |-> NONE]

AgentBodies ==
    {AgentBody("disconnect", "1", NONE, NONE), AgentBody("clear-all", NONE, NONE, NONE),
     AgentBody("Stop", "1", NONE, NONE)}
    \cup {AgentBody(NONE, NONE, "1", st) : st \in {NONE, "working"}}

TaskBodies == [agentId : {"1"}, task : {NONE}, status : {NONE, "completed"}]

LogBodies == [agentId : {"1"}, kind : {"completed", "error"}]

Sids == {"s1"}

RegisterData == [id : {NONE, "1"}, type : {NONE}]

Init ==
    /\ agents = << >>
    /\ queue = ZeroQueue
    /\ now = 0
    /\ procs = {}
    /\ timers = {}
    /\ svc = SvcInit
    /\ watch = WatchInit
    /\ life = LifeInit
    /\ op = [name |-> "init"]

Next ==
    \/ \E e \in HookEvents : Hook(e)
    \/ \E b \in AgentBodies : RestAgent(b)
    \/ \E b \in TaskBodies : RestTask(b)
    \/ \E b \in LogBodies : RestLog(b)
    \/ RestReset
    \/ \E sid \in Sids, d \in RegisterData : WsRegister(sid, d)
    \/ \E sid \in Sids, st \in {NONE, "working"} : WsStatusUpdate(sid, st)
    \/ \E sid \in Sids, task \in {"prompt"} : WsTaskUpdate(sid, task)
    \/ \E id \in {"1"}, st \in {"paused"} : WsPauseResume(id, st)
    \/ \E sid \in Sids : WsDisconnect(sid)
    \/ \E gone \in SUBSET procs : ScanEndpoint(gone)
    \/ SweepCycle
    \/ \E pid \in {1} : ProcStart(pid)
    \/ \E pid \in {1} : ProcExit(pid)

\* The event loop: every handler that writes the registry or the counters,
\* the process scan and the sweep cycle, with OS processes that come and go.
Spec == Init /\ [][Next]_vars

\* Number of registry agents whose status maps to bucket b.
Recount(A, b) == Cardinality({i \in Indices(A) : Normalize(A[i].agent.status) = b})

\* C1: in every reachable state each of the four counters equals the number
\* of registry agents whose status maps to that bucket.
C1_CountersEqualRecount == \A b \in Buckets : queue[b] = Recount(agents, b)

\* C3: in every reachable state no two registry entries carry the same
\* Agent.id.
C3_OneRecordPerId ==
    \A i, j \in Indices(agents) : agents[i].agent.id = agents[j].agent.id => i = j

\* The user-prompt events for agent a: with and without the pid, with and
\* without a parent pid.
PromptEventsFor(a) ==
    {HookEvent("UserPromptSubmit", a.id, pid, parentPid) :
        pid \in {0, a.pid}, parentPid \in {0, 1}}

\* C14: a UserPromptSubmit hook event for the id of an idle agent that a
\* process scan created sets that agent's status to working, adds exactly 1
\* to inProgress, changes no other counter and adds no registry entry.
C14_PromptOnScannedAgent ==
    \A i \in Indices(agents) :
        LET a == agents[i].agent IN
        (agents[i].key = "scan-" \o a.id /\ a.status = "idle")
        => \A e \in PromptEventsFor(a) :
              LET r == hook_endpoint(Cur, e, now) IN
              /\ Len(r.agents) = Len(agents)
              /\ Keys(r.agents) = Keys(agents)
              /\ r.agents[i].key = agents[i].key
              /\ r.agents[i].agent.status = "working"
              /\ r.queue = [queue EXCEPT !["inProgress"] = @ + 1]

\* The prompt of a session has just been handled on the agent a scan
\* created for its process: the agent works, it is the only entry, and
\* inProgress is 1.
C14_Witness ==
    /\ op.name = "handler"
    /\ Len(agents) = 1
    /\ agents[1].key = "scan-1"
    /\ agents[1].agent.status = "working"
    /\ agents[1].agent.current_task = "prompt"
    /\ queue["inProgress"] = 1

\* C17: a stop signal for an agent of the registry leaves that agent
\* completed, whatever its status and its type were, when it comes as a Stop
\* hook event and when it comes as a Stop body of POST /api/agent.
C17_StopCompletes ==
    \A i \in Indices(agents) :
        LET a == agents[i].agent
            h == hook_endpoint(Cur, HookEvent("Stop", a.id, a.pid, 0), now)
            r == agent_endpoint(Cur, AgentBody("Stop", a.id, NONE, NONE), now)
        IN (a.id # "" /\ find_agent_by_id(agents, a.id) = i)
           => /\ h.agents[i].agent.status = "completed"
              /\ r.agents[i].agent.status = "completed"

\* ------------------------------------------------- scans and processes

\* The hook events of the scanner's specification: a session that names no
\* pid under the id a scan would give process 1, and the hook script's event
\* for process 2.
ScanHookEvents ==
    {HookEvent("SessionStart", "1", 0, 0), HookEvent("SessionStart", HookIdOf(2), 2, 0)}

NextScan ==
    \/ \E e \in ScanHookEvents : Hook(e)
    \/ RestAgent(AgentBody("disconnect", "1", NONE, NONE))
    \/ \E gone \in SUBSET procs : ScanEndpoint(gone)
    \/ SweepCycle
    \/ \E pid \in Pids : ProcStart(pid)
    \/ \E pid \in Pids : ProcExit(pid)

\* Process scans, by request and by the sweep cycle, of processes that come
\* and go, with sessions that hooks register.
SpecScan == Init /\ [][NextScan]_vars

\* C5: a second scan of the same live processes, right after a scan, finds
\* nothing and leaves the registry as the first scan left it.
C5_ScanIdempotent ==
    LET r1 == scan_claude_processes(agents, procs, {}, now)
        r2 == scan_claude_processes(r1.agents, procs, {}, now)
    IN r2.found = 0 /\ r2.agents = r1.agents

\* A scan that registered a process has just run, and a process outside the
\* server's own tree is alive.
C5_Witness ==
    /\ op.name = "scan"
    /\ op.found > 0
    /\ procs \ OwnTree # {}
    /\ scan_claude_processes(agents, procs, {}, now).found = 0

\* ------------------------------------------------------ the sweep at work

\* The waits of the model: the grace period of a completed agent, and one
\* second more.
Delays == {COMPLETED_TO_OFFLINE_SECONDS, COMPLETED_TO_OFFLINE_SECONDS + 1}

\* Hook events of process 1 under the id "1" and under an empty id.
SweepHookEvents ==
    {HookEvent("UserPromptSubmit", "1", 1, 0), HookEvent("UserPromptSubmit", "", 1, 0)}

SweepAgentBodies ==
    {AgentBody("Stop", "1", NONE, NONE), AgentBody(NONE, NONE, "1", "offline")}

SweepTaskBodies == [agentId : {"1"}, task : {NONE}, status : {"completed"}]

SweepLogBodies == [agentId : {"2", ""}, kind : {"completed"}]

NextSweep ==
    \/ \E e \in SweepHookEvents : Hook(e)
    \/ \E b \in SweepAgentBodies : RestAgent(b)
    \/ \E b \in SweepTaskBodies : RestTask(b)
    \/ \E b \in SweepLogBodies : RestLog(b)
    \/ SweepCycle
    \/ \E d \in Delays : Tick(d)
    \/ \E pid \in {1} : ProcStart(pid)
    \/ \E pid \in {1} : ProcExit(pid)

\* The sweep cycle among sessions that work, complete and go offline,
\* while time passes and process 1 comes and goes.
SpecSweep == Init /\ [][NextSweep]_vars

\* A step of the sweep cycle.
SweepStep == op'.name = "sweep"

\* The agent is one the pass sends from completed to offline.
Expired(a) == a.status = "completed" /\ now - a.status_changed_at > 30

\* The agent is one the pass sends offline because its process is gone.
Dead(a) == a.status \notin {"offline", "completed"} /\ a.pid # 0 /\ a.pid \notin procs

\* The entry the registry has under the key of entry i after the step is
\* agent a's, now offline.
NowOffline(i) ==
    \E j \in Indices(agents') :
        /\ agents'[j].key = agents[i].key
        /\ agents'[j].agent.id = agents[i].agent.id
        /\ agents'[j].agent.status = "offline"

\* x - n, saturating at 0.
Monus(x, n) == IF x >= n THEN x - n ELSE 0

\* The entries of the registry whose agent has an id and satisfies P.
Named(P(_)) == {i \in Indices(agents) : agents[i].agent.id # "" /\ P(agents[i].agent)}

\* The entries of the registry whose agent satisfies P, with or without id.
All(P(_)) == {i \in Indices(agents) : P(agents[i].agent)}

DeadIn(b, S) == {i \in S : Dead(agents[i].agent) /\ Normalize(agents[i].agent.status) = b}

\* C8, for agents with a non-empty id: a pass sets every completed agent whose
\* statusChangedAt is more than 30 seconds old to offline, counts it as a
\* change, takes one off the completed counter for each such agent
\* (saturating at 0), and changes no other counter on their behalf.
C8_CompletedGoesOffline ==
    [][SweepStep /\ Named(Expired) # {} =>
          /\ \A i \in Named(Expired) : NowOffline(i)
          /\ op'.changed >= Cardinality(Named(Expired))
          /\ queue'["completed"] = Monus(queue["completed"], Cardinality(Named(Expired)))
          /\ \A b \in Buckets \ {"completed"} :
                 DeadIn(b, Named(Dead)) = {} => queue'[b] = queue[b]]_vars

\* C8 as stated, for every agent: the same, whether or not the agent has an id.
C8_AsStated ==
    [][SweepStep /\ All(Expired) # {} =>
          /\ \A i \in All(Expired) : NowOffline(i)
          /\ op'.changed >= Cardinality(All(Expired))
          /\ queue'["completed"] = Monus(queue["completed"], Cardinality(All(Expired)))]_vars

\* A pass has just sent a completed agent offline and taken it off a
\* completed counter that was positive.
C8_Witness ==
    /\ op.name = "sweep"
    /\ op.changed = 1
    /\ op.before["completed"] = 1
    /\ queue["completed"] = 0
    /\ \E i \in Indices(agents) :
           /\ agents[i].agent.status = "offline"
           /\ agents[i].agent.status_changed_at = now
           /\ agents[i].agent.pid \in procs \cup {0}

\* C9, for agents with a non-empty id: a pass sets every agent that is neither
\* offline nor completed and whose pid names no live process to offline, takes
\* one off the bucket of its prior status for each such agent (saturating at
\* 0; off no bucket when the status maps to none), and raises no counter.
C9_DeadPidGoesOffline ==
    [][SweepStep /\ Named(Dead) # {} =>
          /\ \A i \in Named(Dead) : NowOffline(i)
          /\ op'.changed >= Cardinality(Named(Dead))
          /\ \A b \in Buckets \ {"completed"} :
                 queue'[b] = Monus(queue[b], Cardinality(DeadIn(b, Named(Dead))))
          /\ \A b \in Buckets : queue'[b] <= queue[b]]_vars

\* C9 as stated, for every agent: the same, whether or not the agent has an id.
C9_AsStated ==
    [][SweepStep /\ All(Dead) # {} =>
          /\ \A i \in All(Dead) : NowOffline(i)
          /\ \A b \in Buckets \ {"completed"} :
                 queue'[b] = Monus(queue[b], Cardinality(DeadIn(b, All(Dead))))]_vars

\* A pass has just sent a working agent offline whose process was gone, and
\* taken it off the inProgress counter.
C9_Witness ==
    /\ op.name = "sweep"
    /\ op.changed = 1
    /\ op.before["inProgress"] = 1
    /\ queue["inProgress"] = 0
    /\ \E i \in Indices(agents) :
           /\ agents[i].agent.status = "offline"
           /\ agents[i].agent.status_changed_at = now
           /\ agents[i].agent.pid \notin procs \cup {0}

\* The agent is offline.
Offline(a) == a.status = "offline"

\* C10: a pass leaves every offline agent with a non-empty id in the registry,
\* under its key and with every field unchanged, and when no other agent is
\* due for a transition it changes no counter.
C10_OfflineUntouched ==
    [][SweepStep =>
          /\ \A i \in Named(Offline) : \E j \in Indices(agents') : agents'[j] = agents[i]
          /\ (Named(Offline) # {} /\ Named(Expired) = {} /\ Named(Dead) = {})
                 => queue' = queue /\ op'.changed = 0]_vars

\* A pass has just run over an offline agent whose process is gone and whose
\* statusChangedAt is more than 30 seconds old, while the counters were not
\* all 0, and changed nothing.
C10_Witness ==
    /\ op.name = "sweep"
    /\ op.changed = 0
    /\ \E b \in Buckets : queue[b] > 0
    /\ \E i \in Indices(agents) :
           /\ agents[i].agent.id # ""
           /\ agents[i].agent.status = "offline"
           /\ agents[i].agent.pid \notin procs \cup {0}
           /\ now - agents[i].agent.status_changed_at > 30

\* ------------------------------------------------- Session File Watcher

\* What _parse_session_state extracts from the tail of a session file: the
\* record [session_id, cwd, git_branch, model, agent_name, status, ts_kind],
\* each of the first five NONE when the file has no such key. A file without
\* sessionId parses to None. status is the status _derive_status gives the
\* last record; ts_kind tells what the last record's timestamp is: "none",
\* "iso" (a string fromisoformat parses, here the instant 0), "garbage"
\* (another string) or "number" (not a string).
ParsesToNone(obs) == ~Truthy(obs.session_id)

\* _register_or_update_session, lines 411-417: the first agent that records
\* the session id, or that has the working directory and no session data;
\* 0 if there is none.
WatchMatch(A, obs) ==
    LET hits == {i \in Indices(A) :
                    \/ /\ A[i].agent.session_data # NoSessionData
                       /\ A[i].agent.session_data.sessionId = obs.session_id
                    \/ /\ A[i].agent.session_data = NoSessionData
                       /\ Truthy(obs.cwd)
                       /\ A[i].agent.working_directory = obs.cwd}
    IN IF hits = {} THEN 0 ELSE Min(hits)

\* A watcher that files what it saw under a key of the session's own.
KeyOfTheSession(A, i) == "session"

\* _, existing_sid = find_agent_by_id(agent.id): the key of the first entry
\* that holds the id of the agent of entry i.
KeyOfAgent(A, i) == A[find_agent_by_id(A, A[i].agent.id)].key

\* The agent a of entry i, changed in place to a1 and then stored by
\* set_agent under the key that find_agent_by_id gives for its id.
Enriched(A, i, a1) == set_agent(Upd(A, i, a1), KeyOfAgent(A, i), a1)

\* _register_or_update_session. A timestamp that is not a string makes
\* .replace raise AttributeError before any agent is touched.
register_or_update_session(A, obs, t) ==
    LET i == WatchMatch(A, obs) IN
    IF obs.ts_kind = "number" \/ i = 0 THEN A
    ELSE Enriched(A, i,
             [A[i].agent EXCEPT
                 !.session_data =
                     [@ EXCEPT !.sessionId = obs.session_id,
                               !.gitBranch = IF Truthy(obs.git_branch)
                                             THEN obs.git_branch ELSE @,
                               !.model = IF Truthy(obs.model) THEN obs.model ELSE @],
                 !.last_activity = IF obs.ts_kind = "iso" THEN 0 ELSE t])

\* _on_file_modified: parse, then enrich; an exception is logged.
on_file_modified(A, obs, t) ==
    IF ParsesToNone(obs) THEN A ELSE register_or_update_session(A, obs, t)

\* _scan_existing, lines 371-372: the first agent with the session's working
\* directory (None matches None) and no session data; 0 if there is none.
ScanMatch(A, obs) ==
    LET hits == {i \in Indices(A) :
                    /\ A[i].agent.working_directory = obs.cwd
                    /\ A[i].agent.session_data = NoSessionData}
    IN IF hits = {} THEN 0 ELSE Min(hits)

\* _scan_existing, lines 361-384: the loop over the session files.
RECURSIVE ScanExistingLoop(_, _)
ScanExistingLoop(A, files) ==
    IF files = << >> THEN A
    ELSE LET obs == Head(files)
             i == ScanMatch(A, obs) IN
         IF ParsesToNone(obs) \/ obs.status = "offline" \/ i = 0
         THEN ScanExistingLoop(A, Tail(files))
         ELSE ScanExistingLoop(
                  Enriched(A, i,
                      [A[i].agent EXCEPT
                          !.session_data = [sessionId |-> obs.session_id,
                                            gitBranch |-> obs.git_branch,
                                            model |-> obs.model, other |-> FALSE],
                          !.name = IF Truthy(obs.agent_name) THEN obs.agent_name ELSE @]),
                  Tail(files))

\* _scan_existing: nothing to do for an empty registry.
scan_existing(A, files) == IF A = << >> THEN A ELSE ScanExistingLoop(A, files)

\* A session file changes and its debounce timer fires: _flush_pending
\* passes the file to _on_file_modified.
WatchFile(obs) ==
    /\ agents' = on_file_modified(agents, obs, now)
    /\ op' = [name |-> "watch", matched |-> WatchMatch(agents, obs) # 0, obs |-> obs]
    /\ UNCHANGED <<life, queue, now, procs, timers, svc, watch>>

\* SessionWatcher.start: the scan of the session files on disk, which the
\* server runs once the processes have been scanned.
WatchStartupScan(files) ==
    /\ op.name = "scan"
    /\ agents' = scan_existing(agents, files)
    /\ op' = [name |-> "watch_scan", matched |-> \E k \in 1..Len(files) :
                                          ScanMatch(agents, files[k]) # 0]
    /\ UNCHANGED <<life, queue, now, procs, timers, svc, watch>>

Observation(session_id, cwd, git_branch, status, ts_kind) ==
    [session_id |-> session_id, cwd |-> cwd, git_branch |-> git_branch,
     model |-> IF git_branch = NONE THEN NONE ELSE "2.1.0",
     agent_name |-> IF Truthy(cwd) THEN BaseName(cwd) ELSE "session",
     status |-> status, ts_kind |-> ts_kind]

\* What the session files of the model hold.
Observations ==
    {Observation("sess-a", "/repo/app", "main", "working", "iso"),
     Observation("sess-a", "/repo/app", NONE, "idle", "garbage"),
     Observation("sess-b", "/repo/app", "main", "idle", "none"),
     Observation("sess-b", NONE, NONE, "working", "number"),
     Observation("sess-b", NONE, "dev", "offline", "iso"),
     Observation(NONE, "/repo/app", NONE, "idle", "none")}

\* The session files on disk when the server starts, in os.listdir order.
FileLists == {<<o>> : o \in Observations} \cup {<<o1, o2>> : o1, o2 \in Observations}

NextWatch ==
    \/ \E o \in Observations : WatchFile(o)
    \/ \E fs \in FileLists : WatchStartupScan(fs)
    \/ Hook([HookEvent("SessionStart", "1", 1, 0) EXCEPT !.has_data = TRUE])
    \/ Hook(HookEvent("Stop", "s1", 0, 1))
    \/ \E sid \in Sids : WsRegister(sid, [id |-> NONE, type |-> NONE])
    \/ \E gone \in {{}} : ScanEndpoint(gone)
    \/ \E pid \in {1, 2} : ProcStart(pid)
    \/ \E pid \in {1, 2} : ProcExit(pid)

\* The watcher at work on a registry that scans, hooks and WebSocket
\* clients fill.
SpecWatch == Init /\ [][NextWatch]_vars

MaxWait == 120

\* The deferred removal's sleep goes by.
Wait(d) == TimePasses(d, MaxWait)

\* The session of process 1 prompts and ends; a session without id ends.
RemovalHookEvents ==
    {HookEvent("UserPromptSubmit", "1", 1, 0), HookEvent("SessionEnd", "1", 1, 0),
     HookEvent("SessionEnd", "", 0, 0)}

\* The operator's requests: disconnect of agent "1", clear-all.
OperatorBodies ==
    {AgentBody("disconnect", "1", NONE, NONE), AgentBody("clear-all", NONE, NONE, NONE)}

NextRemoval ==
    \/ \E e \in RemovalHookEvents : Hook(e)
    \/ \E b \in OperatorBodies : RestAgent(b)
    \/ \E sid \in Sids : WsRegister(sid, [id |-> NONE, type |-> NONE])
    \/ \E sid \in Sids : WsStatusUpdate(sid, "offline")
    \/ \E sid \in Sids : WsDisconnect(sid)
    \/ \E tm \in timers : TimerFires(tm)
    \/ SweepCycle
    \/ Wait(REMOVE_DELAY_SECONDS)
    \/ \E pid \in {1} : ProcStart(pid)
    \/ \E pid \in {1} : ProcExit(pid)

\* Everything that takes an agent out of the registry: the operator's
\* requests, the deferred removals, the disconnects of the channel and the
\* sweep, among sessions that work and end.
SpecRemoval == Init /\ [][NextRemoval]_vars

\* The step is the handling of an operator's request.
OperatorStep == \E b \in OperatorBodies : RestAgent(b)

\* C11: a step that takes an offline agent out of the registry is the
\* handling of an operator's request (REST disconnect or clear-all): no sweep
\* cycle, deferred removal or disconnect of the channel removes it.
C11_OfflineStays ==
    [][\A i \in Indices(agents) :
          (/\ agents[i].agent.status = "offline"
           /\ agents[i].agent.id # ""
           /\ find_agent_by_id(agents', agents[i].agent.id) = 0)
          => OperatorStep]_vars

NoIdIsOffline ==
    \A i \in Indices(agents) : agents[i].agent.id = "" => agents[i].agent.status = "offline"

\* ------------------------------------------------- update_agent_status

\* The statuses the calls of the model pass.
StatusArgs == {"idle", "offline", "working", "paused", "completed"}

\* A call of AgentManager.update_agent_status(agent_id, status). op keeps
\* what the agent was before the call.
UpdateAgentStatus(agent_id, status) ==
    LET i == find_agent_by_id(agents, agent_id) IN
    /\ agents' = update_agent_status(agents, agent_id, status, now)
    /\ op' = [name |-> "update_agent_status", agent_id |-> agent_id, status |-> status,
              found |-> i # 0,
              was |-> IF i = 0 THEN NONE ELSE agents[i].agent.status,
              was_at |-> IF i = 0 THEN 0 ELSE agents[i].agent.status_changed_at,
              had_task |-> i # 0 /\ agents[i].agent.current_task # NONE,
              had_tool |-> i # 0 /\ agents[i].agent.current_tool # NONE]
    /\ UNCHANGED <<life, queue, now, procs, timers, svc, watch>>

\* The session of process 1 prompts and uses a tool.
StatusHookEvents ==
    {HookEvent("UserPromptSubmit", "1", 1, 0), HookEvent("PreToolUse", "1", 1, 0)}

NextStatus ==
    \/ \E e \in StatusHookEvents : Hook(e)
    \/ \E id \in {"1", "2"}, st \in StatusArgs : UpdateAgentStatus(id, st)
    \/ \E d \in Delays : Tick(d)

\* Calls of update_agent_status on a session that works, while time passes.
SpecStatus == Init /\ [][NextStatus]_vars

\* C15: a call of update_agent_status(id, s) on an agent of the registry
\* sets status_changed_at to the time of the call if s differs from the
\* agent's status before the call and leaves it as it was if s equals it;
\* a call with s idle or offline leaves the agent without current task and
\* current tool.
C15_StampOnlyOnChange ==
    [][(op'.name = "update_agent_status" /\ find_agent_by_id(agents, op'.agent_id) # 0)
       => LET a == agents[find_agent_by_id(agents, op'.agent_id)].agent
              b == agents'[find_agent_by_id(agents', op'.agent_id)].agent
          IN /\ b.status = op'.status
             /\ a.status # op'.status => b.status_changed_at = now
             /\ a.status = op'.status => b.status_changed_at = a.status_changed_at
             /\ op'.status \in {"idle", "offline"}
                => b.current_task = NONE /\ b.current_tool = NONE]_vars

\* A call has just set an agent offline that worked on a task with a tool
\* since an earlier time: the time stamp moved, task and tool are gone.
C15_Witness ==
    /\ op.name = "update_agent_status"
    /\ op.found
    /\ op.status = "offline"
    /\ op.was = "working"
    /\ op.was_at < now
    /\ op.had_task
    /\ op.had_tool
    /\ LET b == agents[find_agent_by_id(agents, op.agent_id)].agent
       IN b.status_changed_at = now /\ b.current_task = NONE /\ b.current_tool = NONE

\* A call has just repeated the status of an agent at a later time: the
\* time stamp is the old one.
C15_WitnessSame ==
    /\ op.name = "update_agent_status"
    /\ op.found
    /\ op.status = op.was
    /\ op.was_at < now
    /\ agents[find_agent_by_id(agents, op.agent_id)].agent.status_changed_at = op.was_at

\* ------------------------------------------------------- Cleanup Service

\* Cap on the number of tick-loop tasks ever created.
MaxTasks == 3

\* The clock of the specifications of the tick loop stops here.
MaxTicks == 6

\* AgentManager.ACTIVE_STATUSES
ACTIVE_STATUSES ==
    {"working", "waiting", "awaiting-permission", "permission-requested", "failed"}

\* Task.cancel() on the task that the handle k names; 0 is None.
CancelTask(tasks, k) == IF k = 0 THEN tasks ELSE [tasks EXCEPT ![k].state = "cancelled"]

\* asyncio.create_task(self._tick_loop()): the loop reads the cadence once,
\* when it starts, and has waited 0 seconds since the last sweep.
NewTask(s) == [state |-> "active", interval |-> s.interval, elapsed |-> 0]

\* A start that forgets the task it already has.
start_without_cancel(s) ==
    [s EXCEPT !.tasks = Append(s.tasks, NewTask(s)), !.task = Len(s.tasks) + 1]

\* CleanupService.start
start(s) ==
    [s EXCEPT !.tasks = Append(CancelTask(s.tasks, s.task), NewTask(s)),
              !.task = Len(s.tasks) + 1]

\* CleanupService.stop
stop(s) ==
    IF s.task # 0 THEN [s EXCEPT !.tasks = CancelTask(s.tasks, s.task), !.task = 0] ELSE s

\* Config.set_cleanup_interval: [ok, svc].
set_cleanup_interval(s, ms) ==
    IF 1000 <= ms /\ ms <= 300000
    THEN [ok |-> TRUE, svc |-> [s EXCEPT !.interval = ms]]
    ELSE [ok |-> FALSE, svc |-> s]

\* CleanupService.restart: [ok, svc].
restart(s, new_interval_ms) ==
    LET r == set_cleanup_interval(s, new_interval_ms) IN
    IF r.ok THEN [ok |-> TRUE, svc |-> start(r.svc)] ELSE [ok |-> FALSE, svc |-> s]

\* A range test that leaves the two bounds out.
InRangeExclusive(interval) == 1000 < interval /\ interval < 300000

\* The range test of update_config, line 53.
InRange(interval) == 1000 <= interval /\ interval <= 300000

\* update_config: the body is [present, cleanupInterval]; present is FALSE
\* when cleanupInterval is null or missing. The result is [ok, svc], ok
\* being the "success" of the response.
update_config(s, b) ==
    IF b.present /\ b.cleanupInterval # 0 /\ InRange(b.cleanupInterval)
    THEN restart(s, b.cleanupInterval)
    ELSE [ok |-> FALSE, svc |-> s]

\* _tick_loop, lines 386-388: one second more for every active agent.
AdvanceActive(A) ==
    [i \in Indices(A) |->
        IF A[i].agent.status \in ACTIVE_STATUSES
        THEN [A[i] EXCEPT !.agent.active_duration = @ + 1]
        ELSE A[i]]

\* The tasks ever created that have not been cancelled.
ActiveTasks == {k \in 1..Len(svc.tasks) : svc.tasks[k].state = "active"}

\* lifespan startup, and any other call of CleanupService.start
SvcStart ==
    /\ Len(svc.tasks) < MaxTasks
    /\ svc' = start(svc)
    /\ op' = [name |-> "start"]
    /\ UNCHANGED <<life, agents, queue, now, procs, timers, watch>>

\* lifespan shutdown, and any other call of CleanupService.stop
SvcStop ==
    /\ svc' = stop(svc)
    /\ op' = [name |-> "stop"]
    /\ UNCHANGED <<life, agents, queue, now, procs, timers, watch>>

\* POST /config
UpdateConfig(b) ==
    LET r == update_config(svc, b) IN
    /\ Len(r.svc.tasks) <= MaxTasks
    /\ svc' = r.svc
    /\ op' = [name |-> "update_config", body |-> b, success |-> r.ok]
    /\ UNCHANGED <<life, agents, queue, now, procs, timers, watch>>

\* _tick_loop, line 391: the cycle is due when the ticks since the last one,
\* as seconds, have reached config.cleanup_interval_ms / 1000.
SweepDue(elapsed, interval_ms) == elapsed * 1000 >= interval_ms

\* _tick_loop, lines 395-398: the events the iteration emits, in order.
TickEmits(due, changed) ==
    IF due /\ changed > 0 THEN <<"task_update", "agent_update">> ELSE <<"agent_update">>

\* One iteration of _tick_loop in task k: the sleep of one second is over,
\* the active agents get their second, and when the cadence of the task has
\* elapsed the process scan and the liveness pass run.
TickLoop(k) ==
    LET task == svc.tasks[k]
        due == SweepDue(task.elapsed + 1, task.interval)
        A1 == AdvanceActive(agents)
        r1 == scan_claude_processes(A1, procs, {}, now + 1)
        r2 == cleanup_dead_agents(r1.agents, queue, procs, now + 1)
    IN /\ k \in ActiveTasks /\ now + 1 <= MaxTicks /\ \A tm \in timers : tm.due > now
       /\ due => Len(r1.agents) <= MaxAgents
       /\ now' = now + 1
       /\ agents' = IF due THEN r2.agents ELSE A1
       /\ queue' = IF due THEN r2.queue ELSE queue
       /\ svc' = [svc EXCEPT !.tasks[k].elapsed = IF due THEN 0 ELSE @ + 1]
       /\ op' = [name |-> "tick_loop", task |-> k, swept |-> due,
                 ran |-> IF due THEN <<"scan_claude_processes", "cleanup_dead_agents">>
                         ELSE << >>,
                 emits |-> TickEmits(due, IF due THEN r2.changed ELSE 0)]
       /\ UNCHANGED <<life, procs, timers, watch>>

\* The milliseconds a request may name: 0, the bounds of the range and
\* their neighbours outside.
IntervalInputs == {0, 999, 1000, 300000, 300001}

ConfigBodies ==
    {[present |-> FALSE, cleanupInterval |-> 0]}
    \cup {[present |-> TRUE, cleanupInterval |-> v] : v \in IntervalInputs}

NextSvc ==
    \/ SvcStart
    \/ SvcStop
    \/ \E b \in ConfigBodies : UpdateConfig(b)
    \/ \E k \in 1..MaxTasks : TickLoop(k)

\* The cleanup service: started, stopped and restarted by requests that set
\* the cadence, while its tick loop runs.
SpecSvc == Init /\ [][NextSvc]_vars

\* C13: at most one tick-loop task is active, it is the one the service
\* holds, and every task created before it has been cancelled; after stop
\* the service holds no task and none is active.
C13_OneSweepTask ==
    /\ Cardinality(ActiveTasks) <= 1
    /\ ActiveTasks \subseteq {svc.task}
    /\ svc.task # 0 => svc.task = Len(svc.tasks)
    /\ op.name = "stop" => svc.task = 0 /\ ActiveTasks = {}

\* The service has been started and restarted: it has created three tasks,
\* the first two are cancelled and the third is active.
C13_Witness ==
    /\ Len(svc.tasks) = 3
    /\ svc.tasks[1].state = "cancelled"
    /\ svc.tasks[2].state = "cancelled"
    /\ ActiveTasks = {3}
    /\ svc.task = 3

\* A stop has just left a service that had created tasks without any
\* active task.
C13_WitnessStop ==
    /\ op.name = "stop"
    /\ Len(svc.tasks) > 0
    /\ ActiveTasks = {}

\* C19: a request whose cadence is missing or outside 1000..300000 ms is
\* refused and leaves the cadence, the task of the service and every task
\* as they were; a request whose cadence is inside the range is accepted,
\* sets the cadence, and leaves exactly one active task, which the service
\* holds and which runs with the new cadence.
C19_CadenceRequest ==
    [][op'.name = "update_config" =>
          LET b == op'.body IN
          IF b.present /\ 1000 <= b.cleanupInterval /\ b.cleanupInterval <= 300000
          THEN /\ op'.success
               /\ svc'.interval = b.cleanupInterval
               /\ \E k \in 1..Len(svc'.tasks) :
                      /\ svc'.task = k
                      /\ svc'.tasks[k].state = "active"
                      /\ svc'.tasks[k].interval = b.cleanupInterval
                      /\ \A j \in 1..Len(svc'.tasks) :
                             j # k => svc'.tasks[j].state = "cancelled"
          ELSE /\ ~op'.success
               /\ svc' = svc]_vars

\* A request for the upper bound of the range has just been accepted while
\* a task was running: that task is cancelled and one new task is active.
C19_Witness ==
    /\ op.name = "update_config"
    /\ op.success
    /\ op.body.cleanupInterval = 300000
    /\ svc.interval = 300000
    /\ Len(svc.tasks) >= 2
    /\ svc.tasks[Len(svc.tasks) - 1].state = "cancelled"
    /\ svc.tasks[Len(svc.tasks) - 1].elapsed > 0
    /\ ActiveTasks = {Len(svc.tasks)}

\* A request for one millisecond more than the upper bound has just been
\* refused while a task was running with a cadence of 1000 ms: cadence and
\* task are the same.
C19_WitnessRefused ==
    /\ op.name = "update_config"
    /\ ~op.success
    /\ op.body.cleanupInterval = 300001
    /\ svc.interval = 1000
    /\ ActiveTasks = {svc.task}

\* ------------------------------------------------------ active durations

\* The statuses the requests of the model give agent "1".
TickStatuses ==
    {"idle", "working", "waiting", "awaiting-permission", "permission-requested",
     "failed", "completed", "offline"}

TickAgentBodies == {AgentBody(NONE, NONE, "1", st) : st \in TickStatuses}

NextTick ==
    \/ SvcStart
    \/ \E k \in 1..MaxTasks : TickLoop(k)
    \/ \E b \in TickAgentBodies : RestAgent(b)
    \/ WsPauseResume("1", "paused")

\* The tick loop of the started service over an agent whose status the
\* requests set.
SpecTick == Init /\ [][NextTick]_vars

\* The statuses for which the claim has the duration advance.
ClaimedActive == {"working", "waiting", "awaiting-permission", "paused", "failed"}

\* C16: an iteration of the tick loop adds exactly 1 to the active duration
\* of every agent whose status is working, waiting, awaiting-permission,
\* paused or failed and leaves the duration of every other agent as it was;
\* no step makes the duration of an agent smaller.
C16_ActiveDuration ==
    [][\A i \in Indices(agents), j \in Indices(agents') :
          agents'[j].key = agents[i].key
          => LET a == agents[i].agent
                 b == agents'[j].agent
             IN /\ b.active_duration >= a.active_duration
                /\ op'.name = "tick_loop"
                   => b.active_duration = IF a.status \in ClaimedActive
                                          THEN a.active_duration + 1
                                          ELSE a.active_duration]_vars

\* ------------------------------------------------- the watcher's debounce

\* DEBOUNCE_SECONDS, in tenths of a second.
DEBOUNCE_TENTHS == 5

\* The monotonic clock stops here.
MaxClock == 11

\* Cap on the number of file-change notifications.
MaxNotify == 2

\* What _parse_session_state finds in each session file.
FileOf(path) ==
    IF path = "a.jsonl" THEN Observation("sess-a", "/repo/app", "main", "working", "iso")
    ELSE Observation("sess-b", NONE, "dev", "offline", "iso")

\* self._pending[file_path] = now: a key the dict has keeps its place.
PendingPut(pending, path) ==
    IF \E i \in 1..Len(pending) : pending[i] = path THEN pending ELSE Append(pending, path)

\* Timer.cancel(): sets the timer's finished event, which stops a timer that
\* still waits and means nothing to one that has seen the event unset.
CancelTimer(ts, k) ==
    IF k # 0 /\ ts[k].state = "waiting" THEN [ts EXCEPT ![k].state = "cancelled"] ELSE ts

\* _schedule_file_processing, lines 138-148: what the watch thread does
\* while it holds the lock.
schedule_file_processing(w) ==
    [w EXCEPT !.pending = PendingPut(@, w.thread.path),
              !.timers = Append(CancelTimer(@, w.timer),
                                [due |-> w.clock + DEBOUNCE_TENTHS, state |-> "waiting",
                                 to_process |-> << >>, at |-> 0]),
              !.timer = Len(w.timers) + 1,
              !.thread = [pc |-> "idle", path |-> NONE, at |-> 0]]

\* A flush that clears the pending set before it copies it.
flush_cleared(w, k) ==
    [w EXCEPT !.timers[k].to_process = << >>,
              !.timers[k].state = "processing",
              !.pending = << >>,
              !.timer = 0]

\* _flush_pending, lines 152-155: what the thread of timer k does while it
\* holds the lock.
flush_pending(w, k) ==
    [w EXCEPT !.timers[k].to_process = w.pending,
              !.timers[k].state = "processing",
              !.pending = << >>,
              !.timer = 0]

\* _flush_pending, lines 157-158: _on_file_modified for each file.
RECURSIVE ProcessAll(_, _, _)
ProcessAll(A, paths, t) ==
    IF paths = << >> THEN A
    ELSE ProcessAll(on_file_modified(A, FileOf(Head(paths)), t), Tail(paths), t)

\* watchdog calls on_modified or on_created for a .jsonl file: the watch
\* thread enters _schedule_file_processing and reads the clock (line 137).
Notify(path) ==
    /\ watch.observer # "stopped"
    /\ watch.thread.pc = "idle"
    /\ Len(watch.notified) < MaxNotify
    /\ watch' = [watch EXCEPT !.thread = [pc |-> "scheduling", path |-> path,
                                          at |-> watch.clock],
                              !.notified = Append(@, [path |-> path, at |-> watch.clock])]
    /\ op' = [name |-> "notify"]
    /\ UNCHANGED <<life, agents, queue, now, procs, timers, svc>>

\* The watch thread gets the lock.
Schedule ==
    /\ watch.thread.pc = "scheduling"
    /\ watch' = schedule_file_processing(watch)
    /\ op' = [name |-> "schedule"]
    /\ UNCHANGED <<life, agents, queue, now, procs, timers, svc>>

\* Timer.run of timer k: the wait is over and the finished event is not
\* set, so the thread goes on to call _flush_pending.
TimerExpires(k) ==
    /\ k \in 1..Len(watch.timers)
    /\ watch.timers[k].state = "waiting"
    /\ watch.clock >= watch.timers[k].due
    /\ watch' = [watch EXCEPT !.timers[k].state = "running"]
    /\ op' = [name |-> "timer_expires"]
    /\ UNCHANGED <<life, agents, queue, now, procs, timers, svc>>

\* The thread of timer k gets the lock.
Flush(k) ==
    /\ k \in 1..Len(watch.timers)
    /\ watch.timers[k].state = "running"
    /\ watch' = flush_pending(watch, k)
    /\ op' = [name |-> "flush"]
    /\ UNCHANGED <<life, agents, queue, now, procs, timers, svc>>

\* The thread of timer k, the lock released, passes its files to
\* _on_file_modified and ends.
Process(k) ==
    /\ k \in 1..Len(watch.timers)
    /\ watch.timers[k].state = "processing"
    /\ agents' = ProcessAll(agents, watch.timers[k].to_process, now)
    /\ watch' = [watch EXCEPT
                    !.timers[k].state = "done",
                    !.passes = [f \in Paths |->
                                   IF \E i \in 1..Len(watch.timers[k].to_process) :
                                          watch.timers[k].to_process[i] = f
                                   THEN @[f] + 1 ELSE @[f]]]
    /\ op' = [name |-> "process"]
    /\ UNCHANGED <<life, queue, now, procs, timers, svc>>

\* A tenth of a second begins on the monotonic clock. The watch thread,
\* which waits for nothing but the lock, is not held up for longer than
\* into the tenth after the one in which it read the clock.
ClockTick ==
    /\ watch.clock < MaxClock
    /\ watch.thread.pc = "scheduling" => watch.clock = watch.thread.at
    /\ watch' = [watch EXCEPT !.clock = @ + 1]
    /\ op' = [name |-> "clock"]
    /\ UNCHANGED <<life, agents, queue, now, procs, timers, svc>>

NextDebounce ==
    \/ \E f \in Paths : Notify(f)
    \/ Schedule
    \/ \E k \in 1..MaxNotify : TimerExpires(k)
    \/ \E k \in 1..MaxNotify : Flush(k)
    \/ \E k \in 1..MaxNotify : Process(k)
    \/ ClockTick
    \/ Hook(HookEvent("SessionStart", "1", 1, 0))

\* The watch thread and the timer threads of the debounce, in every
\* interleaving of their steps with the clock, beside a session that a hook
\* registers.
SpecDebounce == Init /\ [][NextDebounce]_vars

\* No thread of the debounce has anything left to do.
Quiet ==
    /\ watch.thread.pc = "idle"
    /\ \A k \in 1..Len(watch.timers) : watch.timers[k].state \in {"cancelled", "done"}

\* C12: when a file has been notified twice, the second time less than
\* 0.5 s after the first, and every thread is through, the file has been
\* passed to _on_file_modified exactly once.
C12_OnePassPerBurst ==
    \A f \in Paths :
        (/\ Quiet
         /\ Len(watch.notified) = 2
         /\ watch.notified[1].path = f
         /\ watch.notified[2].path = f
         /\ watch.notified[2].at - watch.notified[1].at < DEBOUNCE_TENTHS)
        => watch.passes[f] = 1

\* ------------------------------------------------------------ broadcasts

\* The agent_update broadcasts of the event's handler: _handle_subagent_stop
\* ends with one (line 184), no other handler has any.
HandlerAgentUpdates(e) == IF e.eventType = "SubagentStop" THEN 1 ELSE 0

\* The agent_update broadcasts of hook_endpoint for event e: those of the
\* handler and the one of line 342.
hook_agent_updates(e) == HandlerAgentUpdates(e) + 1

\* POST /api/hook, with the number of agent_update broadcasts it makes.
HookEmitting(e) ==
    HandledAs(hook_endpoint(Cur, e, now),
              [name |-> "hook", eventType |-> e.eventType,
               agent_updates |-> hook_agent_updates(e)])

\* The events of the session of process 1 and of its subagent, process 2.
BroadcastHookEvents ==
    {HookEvent(ty, "1", 1, 0) : ty \in HookTypes \cup {"PreToolUse", "TaskCompleted"}}
    \cup {HookEvent(ty, "2", 2, 1) : ty \in {"UserPromptSubmit", "Stop"}}

NextBroadcast ==
    \/ \E e \in BroadcastHookEvents : HookEmitting(e)
    \/ \E tm \in timers : TimerFires(tm)
    \/ Wait(REMOVE_DELAY_SECONDS)

\* The hook endpoint at work on a session and its subagent, with the
\* broadcasts it makes and the deferred removals it schedules.
SpecBroadcast == Init /\ [][NextBroadcast]_vars

\* C21: the handling of a hook event by the hook endpoint makes exactly one
\* agent_update broadcast, whatever the type of the event.
C21_OneBroadcastPerEvent == op.name = "hook" => op.agent_updates = 1

\* ------------------------------------------------------------ identity

\* The agent recorded under the key.
AgentAt(A, key) == A[KeyIndex(A, key)].agent

\* Every key that is in the registry before and after the step holds the
\* same id.
SameIds == \A k \in Keys(agents) \cap Keys(agents') :
               AgentAt(agents', k).id = AgentAt(agents, k).id

\* C22: no operation changes the id of a record: a record that is in the
\* registry under the same key before and after a step has the same id.
C22_IdNeverChanges == [][SameIds]_vars

\* ------------------------------------------------------------ enrichment

\* The fields of agent a that hold a value hold the same value in agent b.
KeepsSetFields(a, b) ==
    /\ b.last_activity = a.last_activity
    /\ Truthy(a.name) => b.name = a.name
    /\ \A f \in {"gitBranch", "model", "sessionId"} :
           Truthy(a.session_data[f]) => b.session_data[f] = a.session_data[f]

\* A pass of the watcher keeps the set fields of every agent.
EnrichmentStep ==
    op'.name \in {"watch", "watch_scan"} =>
        \A k \in Keys(agents) \cap Keys(agents') :
            KeepsSetFields(AgentAt(agents, k), AgentAt(agents', k))

\* C24: enrichment from a session observation fills only the fields that are
\* unset on the matched agent: lastActivity, name and the gitBranch, model
\* and sessionId of the session metadata keep a value they already have.
C24_EnrichmentOnlyFills == [][EnrichmentStep]_vars

\* The keys of the agents that record the session id.
SessionHolders(A, session_id) ==
    {A[i].key : i \in {j \in Indices(A) : A[j].agent.session_data.sessionId = session_id}}

\* No two agents record the same session id.
UniqueSessions(A) ==
    \A i, j \in Indices(A) :
        /\ i # j
        /\ Truthy(A[i].agent.session_data.sessionId)
        => A[i].agent.session_data.sessionId # A[j].agent.session_data.sessionId

\* An observation of a session that some agent records changes no agent
\* but the ones that record it.
EnrichesTheHolder ==
    /\ op'.name = "watch"
    /\ Truthy(op'.obs.session_id)
    /\ SessionHolders(agents, op'.obs.session_id) # {}
    => \A k \in Keys(agents) \ SessionHolders(agents, op'.obs.session_id) :
           k \in Keys(agents') /\ AgentAt(agents', k) = AgentAt(agents, k)

ThreadOf(o) ==
    CASE o.name \in {"notify", "schedule"} -> "watch"
      [] o.name \in {"timer_expires", "flush", "process"} -> "timer"
      [] o.name = "clock" -> "none"
      [] OTHER -> "event_loop"

\* C23: the registry changes only in steps of the event-loop thread: neither
\* the watch thread nor a debounce-timer thread writes to an agent or calls
\* set_agent.
C23_WritesOnEventLoop == [][agents' # agents => ThreadOf(op') = "event_loop"]_vars

\* The debounce timers that are started and neither cancelled nor expired.
Armed == {k \in 1..Len(watch.timers) : watch.timers[k].state = "waiting"}

\* C26: at most one debounce timer is armed at any time, and whenever one is
\* armed _debounce_timer refers to it, in every interleaving of the watch
\* thread with the timer threads.
C26_OneArmedTimer == Cardinality(Armed) <= 1 /\ (Armed # {} => watch.timer \in Armed)

\* ------------------------------------------------------------ watcher stop

\* SessionWatcher.stop, lines 117-119: the timer _debounce_timer refers to
\* is cancelled and the reference dropped, the lock not taken.
stop_cancel(w) ==
    [w EXCEPT !.timers = CancelTimer(@, w.timer), !.timer = 0, !.observer = "stopping"]

\* The event loop enters SessionWatcher.stop and cancels the timer.
StopCancel ==
    /\ watch.observer = "started"
    /\ watch' = stop_cancel(watch)
    /\ op' = [name |-> "stop_cancel"]
    /\ UNCHANGED <<life, agents, queue, now, procs, timers, svc>>

\* SessionWatcher.stop, lines 120-126: observer.stop() and observer.join():
\* the watch thread ends once it is through with the event it handles, and
\* stop returns.
StopObserver ==
    /\ watch.observer = "stopping"
    /\ watch.thread.pc = "idle"
    /\ watch' = [watch EXCEPT !.observer = "stopped"]
    /\ op' = [name |-> "stop_observer"]
    /\ UNCHANGED <<life, agents, queue, now, procs, timers, svc>>

NextStop ==
    \/ Notify("a.jsonl")
    \/ Schedule
    \/ \E k \in 1..MaxNotify : TimerExpires(k)
    \/ \E k \in 1..MaxNotify : Flush(k)
    \/ \E k \in 1..MaxNotify : Process(k)
    \/ ClockTick
    \/ StopCancel
    \/ StopObserver

\* The debounce of the watcher and a call of SessionWatcher.stop, in every
\* interleaving of the event loop with the watch and timer threads.
SpecStop == Init /\ [][NextStop]_vars

\* C27: once SessionWatcher.stop has returned, no debounce timer is armed
\* and no pass over the pending files starts.
C27_StoppedIsQuiet ==
    [][watch.observer = "stopped" => Armed = {} /\ op'.name # "process"]_vars

\* ------------------------------------------------------------ shutdown

\* A step of the lifespan that lets an exception out ends the lifespan there.
StopRaisedAborts(next_pc, raised) == IF raised THEN "aborted" ELSE next_pc

\* try: ... except Exception: pass: the lifespan goes on to its next
\* statement, the call in the try block having raised or not.
StopGuarded(next_pc, raised) == next_pc

\* lifespan, lines 117-120: session_watcher.stop(), which stops the watcher
\* or raises.
LifespanStopWatcher(raises) ==
    /\ life.pc = "serving"
    /\ ~raises => watch.thread.pc = "idle"
    /\ watch' = IF raises THEN watch
                ELSE [stop_cancel(watch) EXCEPT !.observer = "stopped"]
    /\ life' = [life EXCEPT !.pc = StopGuarded("watcher_done", raises),
                            !.watcher_raised = raises]
    /\ op' = [name |-> "lifespan_stop_watcher"]
    /\ UNCHANGED <<agents, queue, now, procs, timers, svc>>

\* lifespan, lines 121-124: cleanup_service.stop(), which cancels the sweep
\* task or raises.
LifespanStopSweep(raises) ==
    /\ life.pc = "watcher_done"
    /\ svc' = IF raises THEN svc ELSE stop(svc)
    /\ life' = [life EXCEPT !.pc = StopGuarded("sweep_done", raises),
                            !.sweep_raised = raises]
    /\ op' = [name |-> "lifespan_stop_sweep"]
    /\ UNCHANGED <<agents, queue, now, procs, timers, watch>>

\* lifespan, lines 125-128, and close_db: the connection is closed and the
\* lifespan ends.
LifespanCloseDb ==
    /\ life.pc = "sweep_done"
    /\ life' = [life EXCEPT !.pc = "down", !.db = "closed"]
    /\ op' = [name |-> "lifespan_close_db"]
    /\ UNCHANGED <<agents, queue, now, procs, timers, svc, watch>>

\* The server serves.
Serving == life.pc = "serving"

NextShutdown ==
    \/ Serving /\ SvcStart
    \/ Serving /\ \E b \in ConfigBodies : UpdateConfig(b)
    \/ \E f \in Paths : Notify(f)
    \/ Schedule
    \/ \E raises \in BOOLEAN : LifespanStopWatcher(raises)
    \/ \E raises \in BOOLEAN : LifespanStopSweep(raises)
    \/ LifespanCloseDb

\* The shutdown of the application, after the sweep task has been started
\* and restarted and while the watch thread handles file events.
SpecShutdown == Init /\ [][NextShutdown]_vars

\* C28: when the connection to the database is closed, the watcher has been
\* stopped and the sweep task cancelled, or the stop has raised; and the
\* lifespan does not end with the connection open, a stop having raised or
\* not.
C28_StopsThenClose ==
    /\ life.db = "closed" =>
           /\ life.watcher_raised \/ watch.observer = "stopped"
           /\ life.sweep_raised \/ ActiveTasks = {}
    /\ life.pc \in {"down", "aborted"} => life.db = "closed"

\* The connection is closed after the stop of the watcher has raised and a
\* sweep task has been cancelled.
C28_Witness ==
    /\ life.db = "closed"
    /\ life.watcher_raised /\ ~life.sweep_raised
    /\ svc.tasks # << >>

\* ------------------------------------------------------------ cadence

\* Cadences, in milliseconds, that Config accepts.
CadenceInputs == {1500, 2000}

CadenceBodies == {[present |-> TRUE, cleanupInterval |-> ms] : ms \in CadenceInputs}

NextCadence ==
    \/ SvcStart
    \/ \E b \in CadenceBodies : UpdateConfig(b)
    \/ \E k \in 1..MaxTasks : TickLoop(k)
    \/ Hook(HookEvent("UserPromptSubmit", "1", 1, 0))
    \/ \E pid \in {1} : ProcStart(pid)
    \/ \E pid \in {1} : ProcExit(pid)

\* The tick loop under cadences of whole and of fractional seconds, over a
\* session whose process comes and goes.
SpecCadence == Init /\ [][NextCadence]_vars

\* The least number of whole seconds that is no less than ms milliseconds.
CeilSeconds(ms) == (ms + 999) \div 1000

\* The step sets an agent offline that was in the registry and was not.
PassChanged ==
    \E k \in Keys(agents) \cap Keys(agents') :
        AgentAt(agents, k).status # "offline" /\ AgentAt(agents', k).status = "offline"

\* The tick of task op'.task is its n-th since its last cycle, or since its
\* start; it runs the scanner and then the pass if and only if n is the
\* period, which n does not exceed, and emits task_update if and only if
\* the pass changed an agent, and agent_update once, last.
CadenceStep(period(_)) ==
    op'.name = "tick_loop" =>
        LET task == svc.tasks[op'.task]
            n == task.elapsed + 1 IN
        /\ n <= period(task.interval)
        /\ op'.swept <=> n = period(task.interval)
        /\ op'.ran = IF op'.swept THEN <<"scan_claude_processes", "cleanup_dead_agents">>
                     ELSE << >>
        /\ (\E i \in 1..Len(op'.emits) : op'.emits[i] = "task_update")
               <=> op'.swept /\ PassChanged
        /\ Cardinality({i \in 1..Len(op'.emits) : op'.emits[i] = "agent_update"}) = 1
        /\ op'.emits[Len(op'.emits)] = "agent_update"

\* The cadence as a number of ticks, when it is one.
WholeSeconds(ms) == IF ms % 1000 = 0 THEN ms \div 1000 ELSE 0

\* C29: with a cadence of N seconds the loop runs the scanner and
\* then the liveness pass exactly once every N ticks, emits task_update in a
\* cycle if and only if its pass changed an agent, and emits agent_update on
\* every tick.
C29_EveryNTicks == [][CadenceStep(WholeSeconds)]_vars

\* As long as no call of an iteration raises: with a cadence of N seconds
\* the loop runs the scanner and then the liveness pass exactly once every
\* ceil(N) ticks, emits task_update in a cycle if and only if its pass
\* changed an agent, and emits agent_update on every tick.
EveryCeilNTicks == [][CadenceStep(CeilSeconds)]_vars

\* A cycle of a task with a cadence of 1.5 seconds has set an agent offline.
CycleAtOneAndAHalf ==
    /\ op.name = "tick_loop" /\ op.swept
    /\ svc.tasks[op.task].interval = 1500
    /\ Len(op.emits) = 2

\* ------------------------------------------------------------ failures

\* The calls of an iteration of _tick_loop that may raise.
FailurePoints == {"scan_claude_processes", "cleanup_dead_agents", "task_update", "agent_update"}

\* An exception leaves _tick_loop, which catches none: the task is done.
FailTask(tasks, k) == [tasks EXCEPT ![k].state = "failed"]

\* One iteration of _tick_loop in task k in which the call at raises: what
\* the iteration has done before the call stays done (a scanner or pass
\* that raises is taken to raise before it writes), and the exception ends
\* the task. _task still refers to it.
TickLoopFails(k, at) ==
    LET task == svc.tasks[k]
        due == SweepDue(task.elapsed + 1, task.interval)
        A1 == AdvanceActive(agents)
        r1 == scan_claude_processes(A1, procs, {}, now + 1)
        r2 == cleanup_dead_agents(r1.agents, queue, procs, now + 1)
        swept == due /\ at \in {"task_update", "agent_update"}
    IN /\ k \in ActiveTasks /\ now + 1 <= MaxTicks /\ \A tm \in timers : tm.due > now
       /\ at # "agent_update" => due
       /\ at = "task_update" => r2.changed > 0
       /\ due => Len(r1.agents) <= MaxAgents
       /\ now' = now + 1
       /\ agents' = IF swept THEN r2.agents
                    ELSE IF at = "cleanup_dead_agents" THEN r1.agents ELSE A1
       /\ queue' = IF swept THEN r2.queue ELSE queue
       /\ svc' = [svc EXCEPT !.tasks = FailTask(@, k)]
       /\ op' = [name |-> "tick_loop_fails", task |-> k, at |-> at]
       /\ UNCHANGED <<life, procs, timers, watch>>

NextFailure ==
    \/ SvcStart
    \/ UpdateConfig([present |-> TRUE, cleanupInterval |-> 2000])
    \/ \E k \in 1..MaxTasks : TickLoop(k)
    \/ \E k \in 1..MaxTasks, at \in FailurePoints : TickLoopFails(k, at)
    \/ Hook(HookEvent("UserPromptSubmit", "1", 1, 0))
    \/ \E pid \in {1} : ProcStart(pid)
    \/ \E pid \in {1} : ProcExit(pid)

\* The tick loop when the scanner, the liveness pass or a broadcast may
\* raise.
SpecFailure == Init /\ [][NextFailure]_vars

\* C30: a failure of the scanner, of the liveness pass or of a broadcast in
\* an iteration does not stop the sweep: the task the service has started
\* goes on running.
C30_SweepSurvivesFailure == svc.task # 0 => svc.tasks[svc.task].state = "active"

\* ------------------------------------------------------------ snapshots

\* _register_or_update_session, lines 421-429: the writes to the session
\* data of the agent of entry i, which is changed in place.
enrich_session_data(A, i, obs) ==
    Upd(A, i, [A[i].agent EXCEPT
                  !.session_data =
                      [@ EXCEPT !.sessionId = obs.session_id,
                                !.gitBranch = IF Truthy(obs.git_branch)
                                              THEN obs.git_branch ELSE @,
                                !.model = IF Truthy(obs.model) THEN obs.model ELSE @]])

\* _register_or_update_session, lines 430-432: the write of last_activity
\* and the call of set_agent.
enrich_last_activity(A, i, obs, t) ==
    Enriched(A, i, [A[i].agent EXCEPT
                       !.last_activity = IF obs.ts_kind = "iso" THEN 0 ELSE t])

\* The file the thread of timer k is at.
CurrentFile(k) == FileOf(Head(watch.timers[k].to_process))

\* The thread of timer k is through with the file it is at.
FileDone(w, k) ==
    LET f == Head(w.timers[k].to_process) IN
    [w EXCEPT !.timers[k].to_process = Tail(@),
              !.timers[k].state = IF Len(w.timers[k].to_process) = 1 THEN "done"
                                  ELSE "processing",
              !.timers[k].at = 0,
              !.passes[f] = @ + 1]

\* The thread of timer k calls _on_file_modified for its next file and
\* comes as far as line 429: it has written the session data of the agent
\* it matched, of index at, and not yet last_activity. A file that matches
\* no agent is done with.
EnrichBegin(k) ==
    /\ k \in 1..Len(watch.timers)
    /\ watch.timers[k].state = "processing"
    /\ watch.timers[k].to_process # << >>
    /\ LET obs == CurrentFile(k)
           i == WatchMatch(agents, obs) IN
       IF ParsesToNone(obs) \/ obs.ts_kind = "number" \/ i = 0
       THEN /\ watch' = FileDone(watch, k)
            /\ UNCHANGED agents
       ELSE /\ agents' = enrich_session_data(agents, i, obs)
            /\ watch' = [watch EXCEPT !.timers[k].state = "enriching",
                                      !.timers[k].at = i]
    /\ op' = [name |-> "enrich_begin"]
    /\ UNCHANGED <<life, queue, now, procs, timers, svc>>

\* The thread of timer k goes on from line 430 to the end of the call.
EnrichEnd(k) ==
    /\ k \in 1..Len(watch.timers)
    /\ watch.timers[k].state = "enriching"
    /\ watch.timers[k].at \in Indices(agents)
    /\ agents' = enrich_last_activity(agents, watch.timers[k].at, CurrentFile(k), now)
    /\ watch' = FileDone(watch, k)
    /\ op' = [name |-> "enrich_end"]
    /\ UNCHANGED <<life, queue, now, procs, timers, svc>>

\* get_all_agents_serialized, called on the event loop: the list of the
\* agents as they are at the call.
get_all_agents_serialized(A) == [i \in Indices(A) |-> A[i].agent]

\* A handler of the event loop serializes the registry for a broadcast.
Serialize ==
    /\ op' = [name |-> "serialized", list |-> get_all_agents_serialized(agents)]
    /\ UNCHANGED <<life, agents, queue, now, procs, timers, svc, watch>>

NextSnapshot ==
    \/ Notify("a.jsonl")
    \/ Schedule
    \/ \E k \in 1..MaxNotify : TimerExpires(k)
    \/ \E k \in 1..MaxNotify : Flush(k)
    \/ \E k \in 1..MaxNotify : EnrichBegin(k)
    \/ \E k \in 1..MaxNotify : EnrichEnd(k)
    \/ ClockTick
    \/ Hook(HookEvent("SessionStart", "1", 1, 0))
    \/ Serialize

\* The timer threads, which enrich an agent write by write, beside the
\* event loop, which registers a session and serializes the registry.
SpecSnapshot == Init /\ [][NextSnapshot]_vars

\* The agents of which a timer thread has written the session data and not
\* yet last_activity.
HalfEnriched ==
    {watch.timers[k].at : k \in {j \in 1..Len(watch.timers) :
                                    watch.timers[j].state = "enriching"}}

\* C31: a serialized agent list holds no agent to which only a part of the
\* writes of one enrichment has been applied.
C31_ConsistentSnapshot == op.name = "serialized" => HalfEnriched = {}

\* ------------------------------------------------------------ grace period

\* The keys under which registry A holds a completed agent and the registry
\* of the state holds none.
BecameCompleted(A) ==
    {A[i].key : i \in {j \in Indices(A) :
                          /\ A[j].agent.status = "completed"
                          /\ \A h \in Indices(agents) :
                                 agents[h].key = A[j].key
                                 => agents[h].agent.status # "completed"}}

\* The event loop runs a handler to its end; the step keeps which agents
\* the handler has set to completed.
Completing(s) ==
    HandledAs(s, [name |-> "handler", completed |-> BecameCompleted(s.agents)])

\* The session of process 1 and its subagent, process 2.
GraceHookEvents ==
    {HookEvent("UserPromptSubmit", "1", 1, 0), HookEvent("SubagentStop", "1", 1, 0),
     HookEvent("UserPromptSubmit", "2", 2, 1), HookEvent("Stop", "2", 2, 1)}

NextGrace ==
    \/ \E e \in GraceHookEvents : Completing(hook_endpoint(Cur, e, now))
    \/ Completing(task_endpoint(Cur, [agentId |-> "1", task |-> NONE,
                                      status |-> "completed"], now))
    \/ Completing(log_endpoint(Cur, [agentId |-> "1", kind |-> "completed"], now))
    \/ Completing(agent_endpoint(Cur, AgentBody(NONE, NONE, "1", "completed"), now))
    \/ \E sid \in Sids : Completing(on_register_agent(Cur, sid, [id |-> NONE, type |-> NONE], now))
    \/ \E sid \in Sids : Completing(on_status_update(Cur, sid, "completed", now))
    \/ SweepCycle
    \/ TimePasses(COMPLETED_TO_OFFLINE_SECONDS + 1, COMPLETED_TO_OFFLINE_SECONDS + 1)
    \/ \E pid \in {1, 2} : ProcStart(pid)

\* The paths that set an agent to completed, and the sweep cycle, while
\* time passes.
SpecGrace == Init /\ [][NextGrace]_vars

\* C32: a pass that runs at the very moment at which a handler has set an
\* agent to completed, hence less than 30 seconds after, does not send the
\* agent offline, whichever handler it was.
C32_GraceFromCompletion ==
    [][op.name = "handler" /\ SweepStep =>
          \A k \in op.completed \cap Keys(agents') :
              AgentAt(agents', k).status # "offline"]_vars

\* ------------------------------------------------------------ deferred removal

\* C33: a deferred removal that wakes up removes no agent whose status is
\* working at that moment.
C33_WorkingNotRemoved ==
    [][op'.name = "deferred_removal" =>
          \A k \in Keys(agents) :
              AgentAt(agents, k).status = "working" => k \in Keys(agents')]_vars

\* ------------------------------------------------------------ pids

\* minion_orchestra_hook.py, lines 66 and 78: the hook script names the
\* agent after the process that runs it.
HookScriptId(pid) == "claude-proc-" \o StrOfPid(pid)

\* The event the hook script of process pid posts.
HookScriptEvent(type, pid) == HookEvent(type, HookScriptId(pid), pid, 0)

NextPid ==
    \/ \E ty \in HookTypes, pid \in {1, 2} : Hook(HookScriptEvent(ty, pid))
    \/ \E gone \in {{}} : ScanEndpoint(gone)
    \/ SweepCycle
    \/ \E pid \in {1, 2} : ProcStart(pid)
    \/ \E pid \in {1, 2} : ProcExit(pid)

\* Process scans and the events of the hook script, for two processes.
SpecPid == Init /\ [][NextPid]_vars

\* C34: no two records of the registry have the same pid, unless it is 0.
C34_OneRecordPerPid ==
    \A i, j \in Indices(agents) :
        i # j /\ agents[i].agent.pid # 0 => agents[i].agent.pid # agents[j].agent.pid

\* ------------------------------------------------------------ liveness

\* The grace window of a completed agent is over at this time.
GraceOver == COMPLETED_TO_OFFLINE_SECONDS + 1

\* A process starts under a pid that no record is bound to: no pid is used
\* again while the registry remembers it.
ProcStartFresh(pid) ==
    /\ \A i \in Indices(agents) : agents[i].agent.pid # pid
    /\ ProcStart(pid)

\* The grace window passes.
GracePasses == TimePasses(GraceOver, GraceOver)

\* The requests of the model come in before time passes.
Early == now = 0

NextLive ==
    \/ Early /\ \E ty \in {"UserPromptSubmit", "PermissionRequest"} :
                    Hook(HookEvent(ty, "1", 1, 0))
    \/ Early /\ RestLog([agentId |-> "1", kind |-> "completed"])
    \/ SweepCycle
    \/ GracePasses
    \/ \E pid \in {1} : ProcStartFresh(pid)
    \/ \E pid \in {1} : ProcExit(pid)

\* The sweep task keeps running: its cycle, which the loop runs every N
\* ticks, is taken again and again, and time passes.
SpecLive ==
    Init /\ [][NextLive]_vars /\ WF_vars(SweepCycle) /\ WF_vars(GracePasses)

\* A record that is not offline is bound to pid, whose process has exited.
DeadBound(pid) ==
    /\ pid \notin procs
    /\ \E i \in Indices(agents) :
           agents[i].agent.pid = pid /\ agents[i].agent.status # "offline"

\* C35: while the sweep task keeps running, every agent that has a pid, is
\* not offline and whose process has exited is eventually offline or out of
\* the registry.
C35_DeadGoesOffline == DeadBound(1) ~> ~DeadBound(1)

\* A pass has sent offline the agents of a process that had exited, one of
\* them completed.
C35_Witness ==
    /\ op.name = "sweep" /\ op.changed >= 1
    /\ now = GraceOver
    /\ 1 \notin procs
    /\ \E i \in Indices(agents) :
           /\ agents[i].agent.pid = 1
           /\ agents[i].agent.status = "offline"
           /\ agents[i].agent.status_changed_at = now

\* ------------------------------------------------------------ bursts

\* Cap on the debounce timers alive at a time.
MaxLive == 2

\* The timers that are neither cancelled nor done.
Live(w) == {k \in 1..Len(w.timers) : w.timers[k].state \notin {"cancelled", "done"}}

\* The place of timer k among the live ones, 0 if it is not one of them.
LiveRank(w, k) ==
    IF k \in Live(w) THEN Cardinality({j \in Live(w) : j <= k}) ELSE 0

\* The watcher with the threads that have ended forgotten and with the
\* clock read from now: the times of the timers that wait and of the watch
\* thread are kept as distances from the present.
Forget(w) ==
    LET live == SelectSeq(w.timers, LAMBDA tm : tm.state \notin {"cancelled", "done"}) IN
    [w EXCEPT !.timers = [k \in 1..Len(live) |->
                             [live[k] EXCEPT !.due = IF live[k].state = "waiting"
                                                     THEN @ - w.clock ELSE 0]],
              !.timer = LiveRank(w, w.timer),
              !.thread.at = IF w.thread.pc = "scheduling" THEN @ - w.clock ELSE 0,
              !.clock = 0]

\* watchdog calls on_modified for a .jsonl file, any number of times.
BurstNotify(path) ==
    /\ watch.observer # "stopped"
    /\ watch.thread.pc = "idle"
    /\ Len(watch.timers) < MaxLive
    /\ watch' = [watch EXCEPT !.thread = [pc |-> "scheduling", path |-> path,
                                          at |-> watch.clock]]
    /\ op' = [name |-> "notify", path |-> path]
    /\ UNCHANGED <<life, agents, queue, now, procs, timers, svc>>

\* The watch thread gets the lock.
BurstSchedule ==
    /\ watch.thread.pc = "scheduling"
    /\ watch' = Forget(schedule_file_processing(watch))
    /\ op' = [name |-> "schedule"]
    /\ UNCHANGED <<life, agents, queue, now, procs, timers, svc>>

\* Timer.run of timer k: the wait is over and the finished event is not set.
BurstExpires(k) ==
    /\ k \in 1..Len(watch.timers)
    /\ watch.timers[k].state = "waiting"
    /\ watch.clock >= watch.timers[k].due
    /\ watch' = Forget([watch EXCEPT !.timers[k].state = "running"])
    /\ op' = [name |-> "timer_expires"]
    /\ UNCHANGED <<life, agents, queue, now, procs, timers, svc>>

\* The thread of timer k gets the lock.
BurstFlush(k) ==
    /\ k \in 1..Len(watch.timers)
    /\ watch.timers[k].state = "running"
    /\ watch' = Forget(flush_pending(watch, k))
    /\ op' = [name |-> "flush"]
    /\ UNCHANGED <<life, agents, queue, now, procs, timers, svc>>

\* The thread of timer k, the lock released, passes its files to
\* _on_file_modified and ends.
BurstProcess(k) ==
    /\ k \in 1..Len(watch.timers)
    /\ watch.timers[k].state = "processing"
    /\ agents' = ProcessAll(agents, watch.timers[k].to_process, now)
    /\ watch' = Forget([watch EXCEPT !.timers[k].state = "done"])
    /\ op' = [name |-> "process",
              files |-> {watch.timers[k].to_process[i] :
                            i \in 1..Len(watch.timers[k].to_process)}]
    /\ UNCHANGED <<life, queue, now, procs, timers, svc>>

\* A tenth of a second begins. A timer whose wait is over has woken up
\* before, and the watch thread is not held up for longer than into the
\* tenth after the one in which it read the clock.
BurstClock ==
    /\ \A k \in 1..Len(watch.timers) :
           watch.timers[k].state = "waiting" => watch.timers[k].due > watch.clock
    /\ watch.thread.pc = "scheduling" => watch.clock = watch.thread.at
    /\ watch' = Forget([watch EXCEPT !.clock = @ + 1])
    /\ op' = [name |-> "clock"]
    /\ UNCHANGED <<life, agents, queue, now, procs, timers, svc>>

NextBurst ==
    \/ \E f \in Paths : BurstNotify(f)
    \/ BurstSchedule
    \/ \E k \in 1..MaxLive : BurstExpires(k)
    \/ \E k \in 1..MaxLive : BurstFlush(k)
    \/ \E k \in 1..MaxLive : BurstProcess(k)
    \/ BurstClock

\* The debounce under notifications without end: the threads of the
\* watcher are scheduled fairly and time passes; when a file changes is up
\* to the file system.
SpecBurst ==
    /\ Init /\ [][NextBurst]_vars
    /\ WF_vars(BurstSchedule) /\ WF_vars(BurstClock)
    /\ \A k \in 1..MaxLive :
           WF_vars(BurstExpires(k)) /\ WF_vars(BurstFlush(k)) /\ WF_vars(BurstProcess(k))

\* The watch thread has been notified of a change of the file.
Notified(f) == watch.thread.pc = "scheduling" /\ watch.thread.path = f

\* A timer thread has just begun its pass over files of which f is one.
Parsing(f) == op.name = "process" /\ f \in op.files

\* Notifications arrive without end, and from some moment on each of them
\* cancels the timer of the one before it before that timer has fired.
EndlessBurst == []<>(op.name = "notify") /\ <>[](op.name # "timer_expires")

\* C36: every notification of a change of a file is eventually followed by
\* a pass over that file that starts after the notification, unless the
\* notifications go on without end, each cancelling the timer of the one
\* before it.
C36_ParsedAfterBurst == EndlessBurst \/ \A f \in Paths : Notified(f) ~> Parsing(f)

\* C36 as stated: every notification of a change of a file is eventually
\* followed by a pass over that file that starts after the notification.
C36_NotifiedIsParsed == \A f \in Paths : Notified(f) ~> Parsing(f)

\* A file has changed while a timer thread, the lock released, was about
\* to parse others, and has been parsed by a later thread.
C36_Witness ==
    /\ op.name = "process"
    /\ "b.jsonl" \in op.files
    /\ \E k \in 1..Len(watch.timers) :
           /\ watch.timers[k].state = "processing"
           /\ \A i \in 1..Len(watch.timers[k].to_process) :
                  watch.timers[k].to_process[i] # "b.jsonl"

\* ------------------------------------------------ the age-first table

\* The last record is one of a tool use in progress.
ToolUseRecord(e) ==
    e.type = "progress" /\ e.hook_event \in {"PreToolUse", "PostToolUse", "hook_progress"}

\* What the table gives for a last record that is age seconds old.
AgeFirst(e, age) ==
    IF age > OFFLINE_THRESHOLD_SECONDS THEN {"offline"}
    ELSE IF age > IDLE_THRESHOLD_SECONDS THEN {"idle"}
    ELSE IF ToolUseRecord(e) \/ e.type = "user" THEN {"working"}
    ELSE IF e.type = "assistant" THEN {"idle"}
    ELSE {"idle", "working"}

\* C37: the status inferred from a last record that carries the time of its
\* writing is the one of the age-first table: offline over 1 hour, idle over
\* 5 minutes, and below that working for a tool use in progress or a record
\* of the user and idle for one of the assistant; no record older than 5
\* minutes infers working.
C37_AgeFirstTable ==
    (/\ op.name = "derive_status"
     /\ op.entry.ts_kind \in {"aware", "naive"})
    => /\ op.status \in AgeFirst(op.entry, now - op.entry.at)
       /\ now - op.entry.at > IDLE_THRESHOLD_SECONDS => op.status # "working"

\* For the timestamps that carry "Z" or an offset the table holds.
TableForAware ==
    (op.name = "derive_status" /\ op.entry.ts_kind = "aware")
    => /\ op.status \in AgeFirst(op.entry, now - op.entry.at)
       /\ now - op.entry.at > IDLE_THRESHOLD_SECONDS => op.status # "working"

\* ------------------------------------------------- the statuses stored

\* The eight statuses of an agent.
NamedStatuses ==
    {"idle", "working", "waiting", "awaiting-permission", "completed", "failed",
     "paused", "offline"}

\* Status strings of the requests and messages: one of the eight, one of
\* the task table, one the tick loop knows and an unknown one.
CarriedStatuses == {"working", "in_progress", "permission-requested", "bogus"}

NextCarried ==
    \/ \E st \in CarriedStatuses \cup {NONE} : RestAgent(AgentBody(NONE, NONE, "1", st))
    \/ \E st \in CarriedStatuses \cup {NONE} :
          RestTask([agentId |-> "1", task |-> NONE, status |-> st])
    \/ \E d \in RegisterData : WsRegister("s1", d)
    \/ \E st \in CarriedStatuses \cup {NONE} : WsStatusUpdate("s1", st)
    \/ \E ty \in HookTypes : Hook(HookEvent(ty, "1", 1, 0))
    \/ SweepCycle
    \/ ProcStart(1)

\* The handlers that store a status their caller names, with the hooks and
\* the sweep, which store statuses of their own.
SpecCarried == Init /\ [][NextCarried]_vars

\* C38: in every reachable state the status of every agent is one of idle,
\* working, waiting, awaiting-permission, completed, failed, paused and
\* offline.
C38_StatusIsNamed == \A i \in Indices(agents) : agents[i].agent.status \in NamedStatuses

\* The statuses the handlers store of their own accord are among the eight:
\* an agent whose status is none of them has it from a request or a message.
OnlyCarriedAreUnnamed ==
    \A i \in Indices(agents) : agents[i].agent.status \in NamedStatuses \cup CarriedStatuses

====
